---- MODULE Spec2Model ----
(***************************************************************************)
(* Model of the IIoT & Supply Chain dashboard (src/app.py).                *)
(*                                                                         *)
(* Numbers are fixed-point integers in thousandths (1.0 is 1000), so that  *)
(* round(x, n) is a real conversion.  Times are whole hours counted from a *)
(* Monday 00:00.  Entity identifiers are the numeric part of the zero      *)
(* padded names (Machine_04 is 4, SKU_2000 is 2000), whose numeric order   *)
(* is the string order pandas sorts group keys by.  The pseudo-random      *)
(* generators are a stream fixed when the process starts: every row takes  *)
(* the next element of the stream, which selects one of a few              *)
(* representative outcomes of the draws of that row.                       *)
(* Each table has its own specification: the slice of main() that loads    *)
(* the table, evaluates its alerts and renders its tab.                    *)
(***************************************************************************)
EXTENDS Integers, Sequences, FiniteSets, TLC

VARIABLES
    now,                \* datetime.now() of the generator call, in hours
    seed,               \* the stream of the pseudo-random generators
    drawn,              \* position of the next element of the stream
    pc,                 \* position of the script run
    error,              \* the exception a render raised, or "none"
    data,               \* generator local: the list of rows built so far
    ent,                \* generator local: index of the entity loop
    ts,                 \* generator local: index of the timestamp loop
    running,            \* generator locals that outlive one pass of the loop
                        \* (runtime_hours, current_stock) and the values
                        \* computed in the last pass of the loop
    \* main: the calls of the cached generators
    cache,              \* st.cache_data: the table stored for each generator
    body_runs,          \* times the body of each generator was executed
    loading,            \* index of the generator main is calling, else 0
    rerun,              \* whether this script run is a rerun
    total_alerts,       \* the alert summary of the sidebar
    \* predictive maintenance (tab 1)
    predictive_data, pm_alerts, selected_machine, time_range,
    filtered_data, current_pm_alerts, latest_data, critical_machines,
    \* machine status (tab 2)
    machine_status_data, real_time_enabled, selected_machine_status, status_filter,
    filtered_status, latest_status, new_df, updates, slept,
    \* factory environment (tab 3)
    environment_data, env_alerts, selected_zone,
    filtered_env, current_env_alerts, latest_env,
    \* production OEE (tab 4)
    oee_data, selected_line, oee_period, filtered_oee, latest_oee,
    \* cold chain (tab 5)
    cold_chain_data, cc_alerts, selected_shipment, selected_truck,
    filtered_cc, current_cc_alerts, latest_cc, temp_violations,
    \* warehouse environment (tab 6)
    warehouse_env_data, selected_warehouse, filtered_wh, latest_wh,
    \* inventory (tab 7)
    sku_configs, inventory_data, inv_alerts, selected_sku, selected_warehouse_inv,
    filtered_inv, current_inv_alerts, latest_inv, restock_needed, low_stock_items,
    \* package security (tab 8)
    tampering_data, tamper_alerts, selected_package, tamper_period,
    filtered_tamper, current_tamper_alerts, latest_tamper, tamper_kpis

genVars == <<seed, drawn, data, ent, ts, running>>
pmVars  == <<predictive_data, pm_alerts, selected_machine, time_range,
             filtered_data, current_pm_alerts, latest_data, critical_machines>>
envVars == <<environment_data, env_alerts, selected_zone,
             filtered_env, current_env_alerts, latest_env>>
oeeVars == <<oee_data, selected_line, oee_period, filtered_oee, latest_oee>>
statusVars == <<machine_status_data, real_time_enabled, selected_machine_status,
                status_filter, filtered_status, latest_status, new_df, updates,
                slept>>
whVars == <<warehouse_env_data, selected_warehouse, filtered_wh, latest_wh>>
mainVars == <<cache, body_runs, loading, rerun, total_alerts>>
ccVars  == <<cold_chain_data, cc_alerts, selected_shipment, selected_truck,
             filtered_cc, current_cc_alerts, latest_cc, temp_violations>>
invVars == <<sku_configs, inventory_data, inv_alerts, selected_sku,
             selected_warehouse_inv, filtered_inv, current_inv_alerts,
             latest_inv, restock_needed, low_stock_items>>
tamperVars == <<tampering_data, tamper_alerts, selected_package, tamper_period,
                filtered_tamper, current_tamper_alerts, latest_tamper, tamper_kpis>>
vars == <<now, pc, error, genVars, pmVars, envVars, oeeVars, ccVars, invVars,
          tamperVars, statusVars, whVars, mainVars>>

----------------------------------------------------------------------------
(* Bounds of the model *)

NumTimestamps == 2      \* points of the 7-day timestamp grid
NumEntities == 2        \* entities of each entity list that are modelled
StreamLen == 3          \* period of the pseudo-random stream

----------------------------------------------------------------------------
(* Numbers *)

Min(a, b) == IF a < b THEN a ELSE b
Max(a, b) == IF a > b THEN a ELSE b
Abs(a) == IF a < 0 THEN -a ELSE a
Clip(x, lo, hi) == Min(hi, Max(lo, x))

\* round(x, n): to the nearest multiple of q thousandths, ties to even
Round(x, q) ==
    LET f == (x \div q) * q
        r == x - f
    IN  IF 2 * r < q THEN f
        ELSE IF 2 * r > q THEN f + q
        ELSE IF (f \div q) % 2 = 0 THEN f ELSE f + q

SetMax(S) == CHOOSE x \in S : \A y \in S : y <= x
SetMin(S) == CHOOSE x \in S : \A y \in S : x <= y

RECURSIVE SortedSeq(_)
SortedSeq(S) == IF S = {} THEN <<>>
                ELSE <<SetMin(S)>> \o SortedSeq(S \ {SetMin(S)})

RECURSIVE Concat(_)
Concat(ss) == IF ss = <<>> THEN <<>> ELSE Head(ss) \o Concat(Tail(ss))

\* 100 * sin(pi * k / 16) for k = 0..16, to the nearest integer
Sin16 == <<0, 20, 38, 56, 71, 83, 92, 98, 100, 98, 92, 83, 71, 56, 38, 20, 0>>

----------------------------------------------------------------------------
(* Time *)

SpanHours == 168
NowChoices == {182, 290}        \* a Monday 14:00 and a Saturday 02:00
Freq == SpanHours \div (NumTimestamps - 1)
timestampsDescending == [j \in 1..NumTimestamps |-> now - (j - 1) * Freq]

\* pd.date_range(start=start_time, end=end_time, freq=...)
timestamps == [j \in 1..NumTimestamps |-> now - SpanHours + (j - 1) * Freq]
Hour(t) == t % 24
Weekday(t) == (t \div 24) % 7
Days(n) == 24 * n

----------------------------------------------------------------------------
(* random, np.random *)

\* The streams: each element selects one of four outcomes
Seeds == [1..StreamLen -> 1..4]

\* The outcome selected by the n-th next element of the stream
DrawAt(outcomes, n) == outcomes[seed[((drawn + n) % StreamLen) + 1]]
Draw(outcomes) == DrawAt(outcomes, 0)

\* The position of the stream after n more elements were taken
Advance(n) == (drawn + n) % StreamLen

----------------------------------------------------------------------------
(* pandas *)

None == -1
Nullable == {"restock_eta"}

GroupbyLastKeepAll(df, key) == df

\* df.groupby(key).last().reset_index(): one row per key, keys sorted, each
\* other column the last non-null value of the group
GroupbyLast(df, key) ==
    LET keys == SortedSeq({df[i][key] : i \in DOMAIN df})
        Last(k, col) ==
            LET idx == {i \in DOMAIN df : /\ df[i][key] = k
                                          /\ (col \in Nullable => df[i][col] # None)}
            IN  IF idx = {} THEN None ELSE df[SetMax(idx)][col]
    IN  [n \in 1..Len(keys) |->
            [col \in DOMAIN df[1] |-> IF col = key THEN keys[n] ELSE Last(keys[n], col)]]

\* The set of rows of a table, and df[col].unique()
Rows(df) == {df[i] : i \in DOMAIN df}
Keys(df, col) == {df[i][col] : i \in DOMAIN df}

LastDaysOldest(df, n) ==
    LET tmin == SetMin({df[i].timestamp : i \in DOMAIN df})
    IN  SelectSeq(df, LAMBDA r : r.timestamp <= tmin + Days(n))

\* df[df['timestamp'] >= df['timestamp'].max() - timedelta(days=n)]
LastDays(df, n) ==
    LET tmax == SetMax({df[i].timestamp : i \in DOMAIN df})
    IN  SelectSeq(df, LAMBDA r : r.timestamp >= tmax - Days(n))

All == 0

\* The modelled slice of an entity list
Modelled(list, first) == SubSeq(list, first, first + NumEntities - 1)
Range(seq) == {seq[i] : i \in DOMAIN seq}
TimeRanges == {"Last 24 Hours", "Last 3 Days", "Last 7 Days"}

----------------------------------------------------------------------------
(* Predictive maintenance: generator *)

notPM == <<envVars, oeeVars, ccVars, invVars, tamperVars, statusVars, whVars,
          mainVars>>

MACHINES == <<1, 2, 3, 4, 5, 6, 7, 8, 9, 10>>

\* The machines the loops run over: a slice of MACHINES that starts at a
\* machine of the warning tier and goes on with one of the critical tier
Machines == Modelled(MACHINES, 3)

machine_profiles == <<
    [health |-> "excellent", age_months |-> 6],
    [health |-> "good",      age_months |-> 18],
    [health |-> "warning",   age_months |-> 36],
    [health |-> "critical",  age_months |-> 60],
    [health |-> "good",      age_months |-> 12],
    [health |-> "excellent", age_months |-> 3],
    [health |-> "warning",   age_months |-> 42],
    [health |-> "good",      age_months |-> 24],
    [health |-> "critical",  age_months |-> 72],
    [health |-> "excellent", age_months |-> 9] >>

\* The uniform ranges of the bases of a health tier
BaseRanges(health) ==
    IF health = "excellent" THEN
        [vib |-> <<2000, 6000>>, temp |-> <<45000, 65000>>, risk |-> <<5000, 15000>>]
    ELSE IF health = "good" THEN
        [vib |-> <<4000, 8000>>, temp |-> <<50000, 70000>>, risk |-> <<15000, 30000>>]
    ELSE IF health = "warning" THEN
        [vib |-> <<6000, 11000>>, temp |-> <<60000, 78000>>, risk |-> <<30000, 55000>>]
    ELSE
        [vib |-> <<9000, 15000>>, temp |-> <<70000, 85000>>, risk |-> <<55000, 85000>>]

\* The value at position u (in thousandths) of a uniform range
Uniform(range, u) == range[1] + (u * (range[2] - range[1])) \div 1000

\* Outcomes of the draws of one row: the positions of the three uniform bases
\* in their ranges and the two normal noises
DrawsPM == <<
    [uv |-> 0,    ut |-> 0,    ur |-> 500,  nv |-> 1200, nt |-> -4000],
    [uv |-> 1000, ut |-> 1000, ur |-> 1000, nv |-> 0,    nt |-> 0],
    [uv |-> 0,    ut |-> 0,    ur |-> 0,    nv |-> 1304, nt |-> -10000],
    [uv |-> 0,    ut |-> 0,    ur |-> 1000, nv |-> 0,    nt |-> -10000] >>

\* 1.0 + 0.2 * sin(pi * (hour - 6) / 16) in operating hours, else 0.3
operational_factor(hour) ==
    IF 6 <= hour /\ hour <= 22 THEN 1000 + 2 * Sin16[hour - 6 + 1] ELSE 300

FailureRiskNoClamp(base, vibration_rms, temperature_C) ==
    base + (IF vibration_rms > 12000 THEN (vibration_rms - 12000) * 5 ELSE 0)
         + (IF temperature_C > 80000 THEN (temperature_C - 80000) * 3 ELSE 0)

failure_risk_score(base, vibration_rms, temperature_C) ==
    LET s == base
             + (IF vibration_rms > 12000 THEN (vibration_rms - 12000) * 5 ELSE 0)
             + (IF temperature_C > 80000 THEN (temperature_C - 80000) * 3 ELSE 0)
    IN  Min(100000, Max(0, s))

RuntimeCarriedOver(age_months, first, carried) ==
    IF first THEN age_months * 30 * 16 * 1000 + carried ELSE carried

\* runtime_hours before the increment of a pass (in thousandths): set from
\* the profile when the loop of a machine starts, carried on afterwards
RuntimeBefore(age_months, first, carried) ==
    IF first THEN age_months * 30 * 16 * 1000 ELSE carried

\* One pass of the inner loop: the row appended for (machine, timestamp)
generate_predictive_maintenance_data ==
    /\ pc = "gen_pm"
    /\ ent <= NumEntities
    /\ LET machine_id == Machines[ent]
           profile == machine_profiles[machine_id]
           runtime0 == RuntimeBefore(profile.age_months, ts = 1, running)
           timestamp == timestamps[ts]
           d == Draw(DrawsPM)
           base == BaseRanges(profile.health)
           f == operational_factor(Hour(timestamp))
           vibration_rms == (Uniform(base.vib, d.uv) * f) \div 1000 + d.nv
           temperature_C == (Uniform(base.temp, d.ut) * f) \div 1000 + d.nt
           risk == failure_risk_score(Uniform(base.risk, d.ur), vibration_rms,
                                      temperature_C)
           runtime_hours == runtime0 + 200
       IN  /\ data' = Append(data,
                        [timestamp |-> timestamp,
                         machine_id |-> machine_id,
                         vibration_rms |-> Round(vibration_rms, 10),
                         temperature_C |-> Round(temperature_C, 100),
                         runtime_hours |-> Round(runtime_hours, 100),
                         failure_risk_score |-> Round(risk, 100),
                         health_status |-> profile.health])
           /\ running' = runtime_hours
    /\ drawn' = Advance(1)
    /\ IF ts < NumTimestamps THEN ts' = ts + 1 /\ ent' = ent
                             ELSE ts' = 1 /\ ent' = ent + 1
    /\ UNCHANGED <<now, seed, pc, error, pmVars, notPM>>

----------------------------------------------------------------------------
(* Predictive maintenance: alerts *)

PMAlertsOfRowGe(row) ==
    (IF row.vibration_rms >= 12000
        THEN << [type |-> "High Vibration", machine |-> row.machine_id,
                 value |-> row.vibration_rms, threshold |-> 12000,
                 severity |-> "Warning"] >>
        ELSE << >>)
    \o (IF row.temperature_C >= 80000
        THEN << [type |-> "High Temperature", machine |-> row.machine_id,
                 value |-> row.temperature_C, threshold |-> 80000,
                 severity |-> "Critical"] >>
        ELSE << >>)
    \o (IF row.failure_risk_score >= 70000
        THEN << [type |-> "High Failure Risk", machine |-> row.machine_id,
                 value |-> row.failure_risk_score, threshold |-> 70000,
                 severity |-> "Critical"] >>
        ELSE << >>)

PMAlertsOfRowGraded(row) ==
    (IF row.vibration_rms > 12000
        THEN << [type |-> "High Vibration", machine |-> row.machine_id,
                 value |-> row.vibration_rms, threshold |-> 12000,
                 severity |-> IF row.vibration_rms > 15000 THEN "Critical"
                              ELSE "Warning"] >>
        ELSE << >>)
    \o (IF row.temperature_C > 80000
        THEN << [type |-> "High Temperature", machine |-> row.machine_id,
                 value |-> row.temperature_C, threshold |-> 80000,
                 severity |-> "Critical"] >>
        ELSE << >>)
    \o (IF row.failure_risk_score > 70000
        THEN << [type |-> "High Failure Risk", machine |-> row.machine_id,
                 value |-> row.failure_risk_score, threshold |-> 70000,
                 severity |-> "Critical"] >>
        ELSE << >>)

\* The body of the loop over the latest rows
PMAlertsOfRow(row) ==
    (IF row.vibration_rms > 12000
        THEN << [type |-> "High Vibration", machine |-> row.machine_id,
                 value |-> row.vibration_rms, threshold |-> 12000,
                 severity |-> "Warning"] >>
        ELSE << >>)
    \o (IF row.temperature_C > 80000
        THEN << [type |-> "High Temperature", machine |-> row.machine_id,
                 value |-> row.temperature_C, threshold |-> 80000,
                 severity |-> "Critical"] >>
        ELSE << >>)
    \o (IF row.failure_risk_score > 70000
        THEN << [type |-> "High Failure Risk", machine |-> row.machine_id,
                 value |-> row.failure_risk_score, threshold |-> 70000,
                 severity |-> "Critical"] >>
        ELSE << >>)

check_predictive_maintenance_alerts(df) ==
    LET latest == GroupbyLast(df, "machine_id")
    IN  Concat([n \in 1..Len(latest) |-> PMAlertsOfRow(latest[n])])

----------------------------------------------------------------------------
(* Predictive maintenance: main *)

\* main: the generator has returned; the table is loaded and its alerts checked
LoadPredictive ==
    /\ pc = "gen_pm"
    /\ ent > NumEntities
    /\ predictive_data' = data
    /\ pm_alerts' = check_predictive_maintenance_alerts(data)
    /\ pc' = "tab1"
    /\ UNCHANGED <<now, error, genVars, selected_machine, time_range,
                   filtered_data, current_pm_alerts, latest_data, critical_machines,
                   notPM>>

Tab1TimeFilterStrict(df, range) ==
    IF range = "Last 24 Hours" THEN LastDays(df, 1)
    ELSE IF range = "Last 3 Days" THEN LastDays(df, 3)
    ELSE SelectSeq(df, LAMBDA r :
            r.timestamp > SetMax({df[i].timestamp : i \in DOMAIN df}) - Days(7))

Tab1TimeFilter(df, range) ==
    IF range = "Last 24 Hours" THEN LastDays(df, 1)
    ELSE IF range = "Last 3 Days" THEN LastDays(df, 3)
    ELSE df

\* with tab1: filters, alert banner, KPIs
Tab1PredictiveMaintenance ==
    /\ pc = "tab1"
    /\ \E m \in {All} \cup Range(Machines), r \in TimeRanges :
         LET byTime == Tab1TimeFilter(predictive_data, r)
             filtered == IF m # All
                         THEN SelectSeq(byTime, LAMBDA row : row.machine_id = m)
                         ELSE byTime
             latest == GroupbyLast(filtered, "machine_id")
         IN  /\ selected_machine' = m
             /\ time_range' = r
             /\ filtered_data' = filtered
             /\ current_pm_alerts' =
                    SelectSeq(pm_alerts, LAMBDA a : m = All \/ a.machine = m)
             /\ latest_data' = latest
             /\ critical_machines' =
                    Len(SelectSeq(latest, LAMBDA row : row.failure_risk_score > 70000))
    /\ pc' = "done"
    /\ UNCHANGED <<now, error, genVars, predictive_data, pm_alerts, notPM>>

\* A widget change reruns the script; the cached table is not regenerated
RerunPM ==
    /\ pc = "done"
    /\ pc' = "gen_pm"
    /\ UNCHANGED <<now, error, genVars, pmVars, notPM>>

InitGen ==
    /\ now \in NowChoices
    /\ seed \in Seeds
    /\ drawn = 0
    /\ error = "none"
    /\ data = << >>
    /\ ent = 1
    /\ ts = 1
    /\ running = 0

InitPMVars ==
    /\ predictive_data = << >>
    /\ pm_alerts = << >>
    /\ selected_machine = All
    /\ time_range = "Last 7 Days"
    /\ filtered_data = << >>
    /\ current_pm_alerts = << >>
    /\ latest_data = << >>
    /\ critical_machines = 0

InitEnvVars ==
    /\ environment_data = << >>
    /\ env_alerts = << >>
    /\ selected_zone = All
    /\ filtered_env = << >>
    /\ current_env_alerts = << >>
    /\ latest_env = << >>

InitOEEVars ==
    /\ oee_data = << >>
    /\ selected_line = All
    /\ oee_period = "Last 3 Days"
    /\ filtered_oee = << >>
    /\ latest_oee = << >>

InitStatusVars ==
    /\ machine_status_data = << >>
    /\ real_time_enabled = FALSE
    /\ selected_machine_status = All
    /\ status_filter = "All"
    /\ filtered_status = << >>
    /\ latest_status = << >>
    /\ new_df = << >>
    /\ updates = 0
    /\ slept = 0

InitWhVars ==
    /\ warehouse_env_data = << >>
    /\ selected_warehouse = All
    /\ filtered_wh = << >>
    /\ latest_wh = << >>

\* Nothing is cached when the process starts
InitMainVars ==
    /\ cache = << >>
    /\ body_runs = [g \in {} |-> 0]
    /\ loading = 0
    /\ rerun = FALSE
    /\ total_alerts = 0

InitCCVars ==
    /\ cold_chain_data = << >>
    /\ cc_alerts = << >>
    /\ selected_shipment = All
    /\ selected_truck = All
    /\ filtered_cc = << >>
    /\ current_cc_alerts = << >>
    /\ latest_cc = << >>
    /\ temp_violations = 0

InitInvVars ==
    /\ sku_configs = << >>
    /\ inventory_data = << >>
    /\ inv_alerts = << >>
    /\ selected_sku = All
    /\ selected_warehouse_inv = All
    /\ filtered_inv = << >>
    /\ current_inv_alerts = << >>
    /\ latest_inv = << >>
    /\ restock_needed = 0
    /\ low_stock_items = << >>

InitTamperVars ==
    /\ tampering_data = << >>
    /\ tamper_alerts = << >>
    /\ selected_package = All
    /\ tamper_period = "Last 3 Days"
    /\ filtered_tamper = << >>
    /\ current_tamper_alerts = << >>
    /\ latest_tamper = << >>
    /\ tamper_kpis = [total_packages |-> 0, high_tilt_count |-> 0,
                      high_light_count |-> 0, broken_seal_count |-> 0,
                      risk_distribution |->
                          [label \in {"Low", "Medium", "High"} |-> 0]]

InitTables == /\ InitPMVars /\ InitEnvVars /\ InitOEEVars /\ InitCCVars
              /\ InitInvVars /\ InitTamperVars /\ InitStatusVars /\ InitWhVars
              /\ InitMainVars

InitPM == InitGen /\ InitTables /\ pc = "gen_pm"

NextPM ==
    \/ generate_predictive_maintenance_data
    \/ LoadPredictive
    \/ Tab1PredictiveMaintenance
    \/ RerunPM

SpecPM == InitPM /\ [][NextPM]_vars

----------------------------------------------------------------------------
(* Factory environment: generator *)

notEnv == <<pmVars, oeeVars, ccVars, invVars, tamperVars, statusVars, whVars,
           mainVars>>

FACTORY_ZONES == <<1, 2, 3, 4, 5, 6, 7>>
Zones == Modelled(FACTORY_ZONES, 1)

zone_profiles == <<
    [type |-> "Production Floor", base_temp |-> 24, base_co2 |-> 800],
    [type |-> "Assembly Line",    base_temp |-> 22, base_co2 |-> 900],
    [type |-> "Quality Control",  base_temp |-> 20, base_co2 |-> 600],
    [type |-> "Warehouse",        base_temp |-> 18, base_co2 |-> 500],
    [type |-> "Office Area",      base_temp |-> 23, base_co2 |-> 700],
    [type |-> "Chemical Storage", base_temp |-> 16, base_co2 |-> 450],
    [type |-> "Loading Dock",     base_temp |-> 26, base_co2 |-> 1000] >>

\* 100 * sin(2 * pi * k / 24) for k = 0..23, to the nearest integer
Sin24 == <<0, 26, 50, 71, 87, 97, 100, 97, 87, 71, 50, 26,
           0, -26, -50, -71, -87, -97, -100, -97, -87, -71, -50, -26>>

\* Outcomes of the draws of one row: the normal noises of temperature,
\* humidity, CO2, AQI and noise, and the CO2 and noise spikes (0 when the
\* spike is not drawn)
DrawsEnv == <<
    [nt |-> 0, nh |-> 0, nc |-> 200000, sc |-> 0, na |-> 30000, nn |-> 0, sn |-> 0],
    [nt |-> 1500, nh |-> 35000, nc |-> 0, sc |-> 800000, na |-> 10000, nn |-> 0,
     sn |-> 10000],
    [nt |-> -1500, nh |-> -25000, nc |-> -520000, sc |-> 0, na |-> -40000,
     nn |-> -5000, sn |-> 0],
    [nt |-> 0, nh |-> 0, nc |-> 0, sc |-> 300400, na |-> -20000, nn |-> -5000,
     sn |-> 0] >>

\* 0.7 + 0.3 * sin(pi * (hour - 6) / 16) in work hours, else 0.2
activity_factor(t) ==
    IF Weekday(t) < 5 /\ 6 <= Hour(t) /\ Hour(t) <= 22
    THEN 700 + 3 * Sin16[Hour(t) - 6 + 1] ELSE 200

base_noise(type) ==
    IF type \in {"Production Floor", "Assembly Line", "Loading Dock"} THEN 75000
    ELSE IF type \in {"Quality Control", "Office Area"} THEN 45000
    ELSE 55000

Co2FloorMissing(co2) == co2

\* co2_ppm = max(400, co2_ppm), after the spike
Co2Floor(co2) == Max(400000, co2)

\* The row computed for (zone, timestamp) from the draws d
EnvRow(zone_id, timestamp, d) ==
    LET profile == zone_profiles[zone_id]
        af == activity_factor(timestamp)
        external_temp == 15000 + 100 * Sin24[((Hour(timestamp) - 6) % 24) + 1]
        temperature_C == profile.base_temp * 1000 + external_temp \div 10
                         + af * 5 + d.nt
        humidity_percent ==
            Clip(60000 - ((temperature_C - 20000) * 3) \div 2 + d.nh, 30000, 85000)
        co2_ppm == Co2Floor(profile.base_co2 * 1000 + af * 500 + d.nc + d.sc)
        aqi_co2_impact == IF co2_ppm > 1000000 THEN (co2_ppm - 1000000) \div 20 ELSE 0
        aqi == Max(0, 25000 + aqi_co2_impact + af * 20 + d.na)
        noise_db == base_noise(profile.type) + af * 15 + d.nn + d.sn
    IN  [timestamp |-> timestamp,
         zone_id |-> zone_id,
         zone_type |-> profile.type,
         temperature_C |-> Round(temperature_C, 100),
         humidity_percent |-> Round(humidity_percent, 100),
         co2_ppm |-> Round(co2_ppm, 1000),
         aqi |-> Round(aqi, 1000),
         noise_db |-> Round(noise_db, 100)]

\* One pass of the inner loop
generate_factory_environment_data ==
    /\ pc = "gen_env"
    /\ ent <= NumEntities
    /\ data' = Append(data, EnvRow(Zones[ent], timestamps[ts], Draw(DrawsEnv)))
    /\ drawn' = Advance(1)
    /\ IF ts < NumTimestamps THEN ts' = ts + 1 /\ ent' = ent
                             ELSE ts' = 1 /\ ent' = ent + 1
    /\ UNCHANGED <<now, seed, pc, error, running, envVars, notEnv>>

----------------------------------------------------------------------------
(* Factory environment: alerts and main *)

EnvAlertsOfRowGe(row) ==
    (IF row.co2_ppm >= 1500000
        THEN << [type |-> "High CO2", zone |-> row.zone_id, value |-> row.co2_ppm,
                 threshold |-> 1500000, severity |-> "Warning"] >>
        ELSE << >>)
    \o (IF row.aqi >= 100000
        THEN << [type |-> "Poor Air Quality", zone |-> row.zone_id, value |-> row.aqi,
                 threshold |-> 100000, severity |-> "Warning"] >>
        ELSE << >>)
    \o (IF row.noise_db >= 90000
        THEN << [type |-> "High Noise", zone |-> row.zone_id, value |-> row.noise_db,
                 threshold |-> 90000, severity |-> "Warning"] >>
        ELSE << >>)

EnvAlertsOfRow(row) ==
    (IF row.co2_ppm > 1500000
        THEN << [type |-> "High CO2", zone |-> row.zone_id, value |-> row.co2_ppm,
                 threshold |-> 1500000, severity |-> "Warning"] >>
        ELSE << >>)
    \o (IF row.aqi > 100000
        THEN << [type |-> "Poor Air Quality", zone |-> row.zone_id, value |-> row.aqi,
                 threshold |-> 100000, severity |-> "Warning"] >>
        ELSE << >>)
    \o (IF row.noise_db > 90000
        THEN << [type |-> "High Noise", zone |-> row.zone_id, value |-> row.noise_db,
                 threshold |-> 90000, severity |-> "Warning"] >>
        ELSE << >>)

check_environment_alerts(df) ==
    LET latest == GroupbyLast(df, "zone_id")
    IN  Concat([n \in 1..Len(latest) |-> EnvAlertsOfRow(latest[n])])

LoadEnvironment ==
    /\ pc = "gen_env"
    /\ ent > NumEntities
    /\ environment_data' = data
    /\ env_alerts' = check_environment_alerts(data)
    /\ pc' = "tab3"
    /\ UNCHANGED <<now, error, genVars, selected_zone, filtered_env,
                   current_env_alerts, latest_env, notEnv>>

\* with tab3: filter, alert banner, KPIs
Tab3FactoryEnvironment ==
    /\ pc = "tab3"
    /\ \E z \in {All} \cup Range(Zones) :
         LET filtered == IF z # All
                         THEN SelectSeq(environment_data, LAMBDA row : row.zone_id = z)
                         ELSE environment_data
         IN  /\ selected_zone' = z
             /\ filtered_env' = filtered
             /\ current_env_alerts' =
                    SelectSeq(env_alerts, LAMBDA a : z = All \/ a.zone = z)
             /\ latest_env' = GroupbyLast(filtered, "zone_id")
    /\ pc' = "done"
    /\ UNCHANGED <<now, error, genVars, environment_data, env_alerts, notEnv>>

RerunEnv ==
    /\ pc = "done"
    /\ pc' = "gen_env"
    /\ UNCHANGED <<now, error, genVars, envVars, notEnv>>

InitEnv == InitGen /\ InitTables /\ pc = "gen_env"

NextEnv ==
    \/ generate_factory_environment_data
    \/ LoadEnvironment
    \/ Tab3FactoryEnvironment
    \/ RerunEnv

SpecEnv == InitEnv /\ [][NextEnv]_vars

----------------------------------------------------------------------------
(* Cold chain: generator.  The gps_lat and gps_lon columns, which no alert *)
(* and no KPI reads, are left out of the rows.                             *)

notCC == <<pmVars, envVars, oeeVars, invVars, tamperVars, statusVars, whVars,
          mainVars>>

TRUCKS == <<1, 2, 3, 4, 5, 6, 7, 8, 9, 10, 11, 12, 13, 14, 15>>

shipment_configs == <<
    [shipment_id |-> 1000, target_temp |-> -18, tolerance |-> 2, cargo |-> "Frozen Foods"],
    [shipment_id |-> 1001, target_temp |-> 4,   tolerance |-> 2, cargo |-> "Dairy Products"],
    [shipment_id |-> 1002, target_temp |-> 2,   tolerance |-> 1, cargo |-> "Vaccines"],
    [shipment_id |-> 1003, target_temp |-> 6,   tolerance |-> 3, cargo |-> "Fresh Produce"],
    [shipment_id |-> 1004, target_temp |-> -15, tolerance |-> 3, cargo |-> "Ice Cream"],
    [shipment_id |-> 1005, target_temp |-> 3,   tolerance |-> 1, cargo |-> "Blood Products"],
    [shipment_id |-> 1006, target_temp |-> 8,   tolerance |-> 2, cargo |-> "Beverages"],
    [shipment_id |-> 1007, target_temp |-> -20, tolerance |-> 2, cargo |-> "Medical Samples"],
    [shipment_id |-> 1008, target_temp |-> 5,   tolerance |-> 2, cargo |-> "Meat Products"],
    [shipment_id |-> 1009, target_temp |-> 7,   tolerance |-> 3, cargo |-> "Chemicals"] >>

\* Draws of one row: the normal temperature variation, the position u (in
\* thousandths) of the external factor in its uniform range, the malfunction
\* excursion (0 when it is not drawn), the humidity before clipping and
\* whether the door roll opens the door
DrawsCC == <<
    [tv |-> 0,     u |-> 500,  exc |-> 0,    hum |-> 70000,  open |-> FALSE],
    [tv |-> -150,  u |-> 0,    exc |-> 5000, hum |-> 70000,  open |-> FALSE],
    [tv |-> 0,     u |-> 1000, exc |-> 8000, hum |-> 100000, open |-> TRUE],
    [tv |-> -5150, u |-> 0,    exc |-> 0,    hum |-> 35000,  open |-> FALSE] >>

\* The uniform range of external_factor at an hour
ExternalRange(hour) ==
    IF 12 <= hour /\ hour <= 16 THEN [lo |-> 500, hi |-> 2000]
    ELSE IF 2 <= hour /\ hour <= 6 THEN [lo |-> -1000, hi |-> -300]
    ELSE [lo |-> -500, hi |-> 500]

\* The row computed for shipment i (from 0) at timestamp j (from 0)
CCRow(i, j, d) ==
    LET config == shipment_configs[i + 1]
        truck_id == TRUCKS[(i % Len(TRUCKS)) + 1]
        timestamp == timestamps[j + 1]
        rng == ExternalRange(Hour(timestamp))
        external_factor == rng.lo + (d.u * (rng.hi - rng.lo)) \div 1000
        cold_storage_temp == config.target_temp * 1000 + d.tv + d.exc
                             + (external_factor * 3) \div 10
        humidity == Clip(d.hum, 40000, 95000)
    IN  [timestamp |-> timestamp,
         shipment_id |-> config.shipment_id,
         truck_id |-> truck_id,
         cargo_type |-> config.cargo,
         cold_storage_temp |-> Round(cold_storage_temp, 100),
         humidity |-> Round(humidity, 100),
         door_status |-> IF d.open THEN "open" ELSE "closed",
         target_temp |-> config.target_temp * 1000]

ProgressToEnd(j) == Min((j * 1000) \div (Len(timestamps) - 1), 1000)

\* progress = min(j / len(timestamps), 1.0), in thousandths
Progress(j) == Min((j * 1000) \div Len(timestamps), 1000)

\* One pass of the inner loop
generate_cold_chain_data ==
    /\ pc = "gen_cc"
    /\ ent <= NumEntities
    /\ data' = Append(data, CCRow(ent - 1, ts - 1, Draw(DrawsCC)))
    /\ running' = [progress |-> Progress(ts - 1)]
    /\ drawn' = Advance(1)
    /\ IF ts < NumTimestamps THEN ts' = ts + 1 /\ ent' = ent
                             ELSE ts' = 1 /\ ent' = ent + 1
    /\ UNCHANGED <<now, seed, pc, error, ccVars, notCC>>

----------------------------------------------------------------------------
(* Cold chain: alerts and main *)

CCAlertsOfRowNoAbs(row) ==
    IF row.cold_storage_temp - row.target_temp > 5000
    THEN << [type |-> "Temperature Deviation", shipment |-> row.shipment_id,
             current |-> row.cold_storage_temp, target |-> row.target_temp,
             severity |-> "Critical"] >>
    ELSE << >>

CCAlertsOfRow(row) ==
    IF Abs(row.cold_storage_temp - row.target_temp) > 5000
    THEN << [type |-> "Temperature Deviation", shipment |-> row.shipment_id,
             current |-> row.cold_storage_temp, target |-> row.target_temp,
             severity |-> "Critical"] >>
    ELSE << >>

check_cold_chain_alerts(df) ==
    LET latest == GroupbyLast(df, "shipment_id")
    IN  Concat([n \in 1..Len(latest) |-> CCAlertsOfRow(latest[n])])

LoadColdChain ==
    /\ pc = "gen_cc"
    /\ ent > NumEntities
    /\ cold_chain_data' = data
    /\ cc_alerts' = check_cold_chain_alerts(data)
    /\ pc' = "tab5"
    /\ UNCHANGED <<now, error, genVars, selected_shipment, selected_truck,
                   filtered_cc, current_cc_alerts, latest_cc, temp_violations, notCC>>

\* with tab5: filters, alert banner, KPIs.  The averages and the loops over
\* the shipments of the filtered table do nothing on an empty table.
Tab5ColdChain ==
    /\ pc = "tab5"
    /\ \E s \in {All} \cup Keys(cold_chain_data, "shipment_id"),
          t \in {All} \cup Keys(cold_chain_data, "truck_id") :
         LET byShipment == IF s # All
                           THEN SelectSeq(cold_chain_data,
                                          LAMBDA row : row.shipment_id = s)
                           ELSE cold_chain_data
             filtered == IF t # All
                         THEN SelectSeq(byShipment, LAMBDA row : row.truck_id = t)
                         ELSE byShipment
         IN  /\ selected_shipment' = s
             /\ selected_truck' = t
             /\ filtered_cc' = filtered
             /\ current_cc_alerts' =
                    SelectSeq(cc_alerts, LAMBDA a : s = All \/ a.shipment = s)
             /\ latest_cc' = GroupbyLast(filtered, "shipment_id")
             /\ temp_violations' = Len(cc_alerts)
    /\ pc' = "done"
    /\ UNCHANGED <<now, error, genVars, cold_chain_data, cc_alerts, notCC>>

RerunCC ==
    /\ pc = "done"
    /\ pc' = "gen_cc"
    /\ UNCHANGED <<now, error, genVars, ccVars, notCC>>

InitCC == InitGen /\ InitTables /\ pc = "gen_cc"

NextCC ==
    \/ generate_cold_chain_data
    \/ LoadColdChain
    \/ Tab5ColdChain
    \/ RerunCC

SpecCC == InitCC /\ [][NextCC]_vars

----------------------------------------------------------------------------
(* Inventory: generator *)

notInv == <<pmVars, envVars, oeeVars, ccVars, tamperVars, statusVars, whVars,
           mainVars>>

WAREHOUSES == <<1, 2, 3, 4, 5>>
Warehouses == Modelled(WAREHOUSES, 1)

\* The SKUs the loops run over: the first of SKUS[:25], SKU_2000 onwards
Skus == [i \in 1..NumEntities |-> 2000 + i - 1]

\* Outcomes of the draws of one SKU configuration: randint(100, 1000),
\* randint(50, 200) and uniform(0.5, 5.0)
DrawsSkuConfig == <<
    [initial_stock |-> 200, reorder_point |-> 199, consumption_rate |-> 1000],
    [initial_stock |-> 999, reorder_point |-> 50,  consumption_rate |-> 5000],
    [initial_stock |-> 100, reorder_point |-> 199, consumption_rate |-> 500],
    [initial_stock |-> 200, reorder_point |-> 199, consumption_rate |-> 1400] >>

\* Outcomes of the draws of one row: the normal noise of the consumption,
\* whether the 10% restocking roll succeeds, randint(200, 800) and
\* randint(6, 48)
DrawsInv == <<
    [noise |-> 0,    restock |-> FALSE, restock_amount |-> 200, eta |-> 6],
    [noise |-> 0,    restock |-> TRUE,  restock_amount |-> 200, eta |-> 6],
    [noise |-> -400, restock |-> FALSE, restock_amount |-> 799, eta |-> 47],
    [noise |-> 900,  restock |-> TRUE,  restock_amount |-> 799, eta |-> 47] >>

\* The loop that fills sku_configs, before any row is generated
BuildSkuConfigs ==
    /\ pc = "cfg_inv"
    /\ sku_configs' =
            [i \in 1..NumEntities |->
                LET c == DrawAt(DrawsSkuConfig, i - 1)
                IN  [sku_id |-> Skus[i],
                     initial_stock |-> c.initial_stock,
                     reorder_point |-> c.reorder_point,
                     consumption_rate |-> c.consumption_rate,
                     warehouse_id |-> WAREHOUSES[((i - 1) % Len(WAREHOUSES)) + 1]]]
    /\ drawn' = Advance(NumEntities)
    /\ pc' = "gen_inv"
    /\ UNCHANGED <<now, error, seed, data, ent, ts, running, inventory_data,
                   inv_alerts, selected_sku, selected_warehouse_inv, filtered_inv,
                   current_inv_alerts, latest_inv, restock_needed, low_stock_items,
                   notInv>>

consumption_multiplier(t) ==
    IF Weekday(t) < 5 /\ 8 <= Hour(t) /\ Hour(t) <= 17 THEN 1000
    ELSE IF Weekday(t) < 5 THEN 300
    ELSE 500

NeedsRestockAlways(current_stock, reorder_point) == TRUE

RestockEtaWhenLow(low, restock, eta) == IF low THEN eta ELSE None

\* restock_eta of a pass: np.random.randint(6, 48) when the stock is low and
\* the restock is not drawn, None otherwise
RestockEta(low, restock, eta) == IF low /\ ~restock THEN eta ELSE None

\* if current_stock <= reorder_point
NeedsRestock(current_stock, reorder_point) == current_stock <= reorder_point

\* One pass of the inner loop
generate_inventory_data ==
    /\ pc = "gen_inv"
    /\ ent <= NumEntities
    /\ LET config == sku_configs[ent]
           stock0 == IF ts = 1 THEN config.initial_stock * 1000
                     ELSE running.current_stock
           reorder_point == config.reorder_point * 1000
           timestamp == timestamps[ts]
           d == Draw(DrawsInv)
           consumption ==
               Max(0, (config.consumption_rate * consumption_multiplier(timestamp))
                          \div 1000 + d.noise)
           consumed == Max(0, stock0 - consumption)
           low == NeedsRestock(consumed, reorder_point)
           current_stock == IF low /\ d.restock
                            THEN consumed + d.restock_amount * 1000
                            ELSE consumed
           restock_eta == RestockEta(low, d.restock, d.eta)
       IN  /\ data' = Append(data,
                  [timestamp |-> timestamp,
                   sku_id |-> config.sku_id,
                   warehouse_id |-> config.warehouse_id,
                   stock_level |-> Round(current_stock, 1000),
                   reorder_point |-> reorder_point,
                   restock_eta |-> restock_eta])
           /\ running' = [current_stock |-> current_stock,
                          consumed |-> consumed,
                          reorder_point |-> reorder_point,
                          restocked |-> low /\ d.restock]
    /\ drawn' = Advance(1)
    /\ IF ts < NumTimestamps THEN ts' = ts + 1 /\ ent' = ent
                             ELSE ts' = 1 /\ ent' = ent + 1
    /\ UNCHANGED <<now, seed, pc, error, invVars, notInv>>

----------------------------------------------------------------------------
(* Inventory: alerts and main *)

IsLowStockStrict(row) == row.stock_level < row.reorder_point
IsLowStock(row) == row.stock_level <= row.reorder_point

check_inventory_alerts(df) ==
    LET latest == GroupbyLast(df, "sku_id")
        low_stock == SelectSeq(latest, IsLowStock)
    IN  [n \in 1..Len(low_stock) |->
            [type |-> "Low Stock",
             sku |-> low_stock[n].sku_id,
             warehouse |-> low_stock[n].warehouse_id,
             stock_level |-> low_stock[n].stock_level,
             reorder_point |-> low_stock[n].reorder_point,
             severity |-> "Warning"]]

LoadInventory ==
    /\ pc = "gen_inv"
    /\ ent > NumEntities
    /\ inventory_data' = data
    /\ inv_alerts' = check_inventory_alerts(data)
    /\ pc' = "tab7"
    /\ UNCHANGED <<now, error, genVars, sku_configs, selected_sku,
                   selected_warehouse_inv, filtered_inv, current_inv_alerts,
                   latest_inv, restock_needed, low_stock_items, notInv>>

\* with tab7: filters, alert banner, KPIs, the stock trend of one SKU, the
\* low stock table.  sku_data['reorder_point'].iloc[0] raises IndexError on
\* an empty sku_data, which ends the script run before the low stock table.
Tab7Inventory ==
    /\ pc = "tab7"
    /\ \E s \in {All} \cup Keys(inventory_data, "sku_id"),
          w \in {All} \cup Range(Warehouses) :
         LET bySku == IF s # All
                      THEN SelectSeq(inventory_data, LAMBDA row : row.sku_id = s)
                      ELSE inventory_data
             filtered == IF w # All
                         THEN SelectSeq(bySku, LAMBDA row : row.warehouse_id = w)
                         ELSE bySku
             latest == GroupbyLast(filtered, "sku_id")
             sku_data == SelectSeq(filtered, LAMBDA row : row.sku_id = s)
         IN  /\ selected_sku' = s
             /\ selected_warehouse_inv' = w
             /\ filtered_inv' = filtered
             /\ current_inv_alerts' =
                    SelectSeq(inv_alerts,
                              LAMBDA a : /\ (s = All \/ a.sku = s)
                                         /\ (w = All \/ a.warehouse = w))
             /\ latest_inv' = latest
             /\ restock_needed' = Len(SelectSeq(latest, LAMBDA row : row.restock_eta # None))
             /\ IF s # All /\ sku_data = << >>
                THEN /\ error' = "IndexError"
                     /\ UNCHANGED low_stock_items
                ELSE /\ error' = "none"
                     /\ low_stock_items' = SelectSeq(latest, IsLowStock)
    /\ pc' = "done"
    /\ UNCHANGED <<now, genVars, sku_configs, inventory_data, inv_alerts, notInv>>

RerunInv ==
    /\ pc = "done"
    /\ pc' = "gen_inv"
    /\ UNCHANGED <<now, error, genVars, invVars, notInv>>

InitInv == InitGen /\ InitTables /\ pc = "cfg_inv"

NextInv ==
    \/ BuildSkuConfigs
    \/ generate_inventory_data
    \/ LoadInventory
    \/ Tab7Inventory
    \/ RerunInv

SpecInv == InitInv /\ [][NextInv]_vars

----------------------------------------------------------------------------
(* Production OEE: generator *)

notOEE == <<pmVars, envVars, ccVars, invVars, tamperVars, statusVars, whVars,
           mainVars>>

PRODUCTION_LINES == <<1, 2, 3, 4, 5>>
Lines == Modelled(PRODUCTION_LINES, 1)

\* efficiency and reliability in percent
line_profiles == <<
    [efficiency |-> 92, reliability |-> 95, product |-> "Electronics"],
    [efficiency |-> 88, reliability |-> 90, product |-> "Automotive"],
    [efficiency |-> 94, reliability |-> 97, product |-> "Pharmaceuticals"],
    [efficiency |-> 85, reliability |-> 87, product |-> "Food Processing"],
    [efficiency |-> 90, reliability |-> 92, product |-> "Textiles"] >>

\* Outcomes of the draws of one row: the position u (in thousandths) of the uniform bases in
\* their ranges, the three normal noises, and the multipliers (in
\* thousandths) of an availability/performance issue and of a quality issue
\* (0 when the issue is not drawn)
DrawsOEE == <<
    [u |-> 500,  na |-> 0,     np |-> 0,      nq |-> 0,     fa |-> 0,   fp |-> 0,
     fq |-> 0],
    [u |-> 1000, na |-> 9000,  np |-> 16000,  nq |-> 6000,  fa |-> 0,   fp |-> 0,
     fq |-> 0],
    [u |-> 0,    na |-> -9000, np |-> -17000, nq |-> -5000, fa |-> 0,   fp |-> 0,
     fq |-> 800],
    [u |-> 500,  na |-> 0,     np |-> 0,      nq |-> 0,     fa |-> 600, fp |-> 700,
     fq |-> 0] >>

OeePercentMean(a, p, q) == (a + p + q) \div 3

\* (availability * performance * quality) / 10000, on thousandths
OeePercent(a, p, q) == ((((a \div 10) * (p \div 10)) \div 1000) * (q \div 10)) \div 10000

\* The locals of one pass for (line, timestamp) from the draws d, before they
\* are rounded into the row
OEEValues(line_id, timestamp, d) ==
    LET profile == line_profiles[line_id]
        hour == Hour(timestamp)
        work == Weekday(timestamp) < 5 /\ 6 <= hour /\ hour <= 22
        base_availability == IF work THEN profile.reliability * 1000
                                     ELSE 10000 + d.u * 20
        base_performance == IF work THEN profile.efficiency * 1000
                                    ELSE 20000 + d.u * 30
        base_quality == IF work THEN 92000 + d.u * 6 ELSE 85000 + d.u * 10
        shift_factor == IF ~work THEN 800
                        ELSE IF 6 <= hour /\ hour <= 14 THEN 1000
                        ELSE IF 14 <= hour /\ hour <= 22 THEN 950
                        ELSE 900
        a0 == Clip((base_availability * shift_factor) \div 1000 + d.na, 0, 100000)
        p0 == Clip((base_performance * shift_factor) \div 1000 + d.np, 0, 100000)
        q0 == Clip(base_quality + d.nq, 70000, 100000)
        availability_percent == IF d.fa # 0 THEN (a0 * d.fa) \div 1000 ELSE a0
        performance_percent == IF d.fa # 0 THEN (p0 * d.fp) \div 1000 ELSE p0
        quality_percent == IF d.fq # 0 THEN (q0 * d.fq) \div 1000 ELSE q0
        oee_percent == OeePercent(availability_percent, performance_percent,
                                  quality_percent)
    IN  [availability_percent |-> availability_percent,
         performance_percent |-> performance_percent,
         quality_percent |-> quality_percent,
         oee_percent |-> oee_percent]

\* The row appended for (line, timestamp): the locals rounded to one decimal
OEERow(line_id, timestamp, d) ==
    LET v == OEEValues(line_id, timestamp, d)
    IN  [timestamp |-> timestamp,
         line_id |-> line_id,
         product_type |-> line_profiles[line_id].product,
         availability_percent |-> Round(v.availability_percent, 100),
         performance_percent |-> Round(v.performance_percent, 100),
         quality_percent |-> Round(v.quality_percent, 100),
         oee_percent |-> Round(v.oee_percent, 100)]

\* One pass of the inner loop
generate_oee_data ==
    /\ pc = "gen_oee"
    /\ ent <= NumEntities
    /\ data' = Append(data, OEERow(Lines[ent], timestamps[ts], Draw(DrawsOEE)))
    /\ running' = OEEValues(Lines[ent], timestamps[ts], Draw(DrawsOEE))
    /\ drawn' = Advance(1)
    /\ IF ts < NumTimestamps THEN ts' = ts + 1 /\ ent' = ent
                             ELSE ts' = 1 /\ ent' = ent + 1
    /\ UNCHANGED <<now, seed, pc, error, oeeVars, notOEE>>

\* main: the generator has returned and the table is loaded
LoadOEE ==
    /\ pc = "gen_oee"
    /\ ent > NumEntities
    /\ oee_data' = data
    /\ pc' = "tab4"
    /\ UNCHANGED <<now, error, genVars, selected_line, oee_period, filtered_oee,
                   latest_oee, notOEE>>

Tab4TimeFilter(df, period) ==
    IF period = "Last 24 Hours" THEN LastDays(df, 1)
    ELSE IF period = "Last 3 Days" THEN LastDays(df, 3)
    ELSE df

\* with tab4: filters and KPIs
Tab4ProductionOEE ==
    /\ pc = "tab4"
    /\ \E l \in {All} \cup Range(Lines), r \in TimeRanges :
         LET byTime == Tab4TimeFilter(oee_data, r)
             filtered == IF l # All
                         THEN SelectSeq(byTime, LAMBDA row : row.line_id = l)
                         ELSE byTime
         IN  /\ selected_line' = l
             /\ oee_period' = r
             /\ filtered_oee' = filtered
             /\ latest_oee' = GroupbyLast(filtered, "line_id")
    /\ pc' = "done"
    /\ UNCHANGED <<now, error, genVars, oee_data, notOEE>>

RerunOEE ==
    /\ pc = "done"
    /\ pc' = "gen_oee"
    /\ UNCHANGED <<now, error, genVars, oeeVars, notOEE>>

InitOEE == InitGen /\ InitTables /\ pc = "gen_oee"

NextOEE ==
    \/ generate_oee_data
    \/ LoadOEE
    \/ Tab4ProductionOEE
    \/ RerunOEE

SpecOEE == InitOEE /\ [][NextOEE]_vars

----------------------------------------------------------------------------
(* Package security: generator *)

notTamper == <<pmVars, envVars, oeeVars, ccVars, invVars, statusVars, whVars,
              mainVars>>

\* The packages the loops run over: the first of PACKAGES[:50], PKG_500000
\* onwards
Packages == [i \in 1..NumEntities |-> 500000 + i - 1]

\* Draws of one row: tilt and light before their spikes (a uniform plus a
\* normal term), the tilt and light spikes (0 when not drawn) and whether the
\* seal roll breaks the seal
DrawsTamper == <<
    [tilt |-> 5000,  tilt_spike |-> 40000, light |-> 100000, light_spike |-> 900000,
     broken |-> FALSE],
    [tilt |-> 10000, tilt_spike |-> 80000, light |-> 150000, light_spike |-> 2000000,
     broken |-> TRUE],
    [tilt |-> -3000, tilt_spike |-> 0,     light |-> -5000,  light_spike |-> 0,
     broken |-> TRUE],
    [tilt |-> 5060,  tilt_spike |-> 40000, light |-> 100000, light_spike |-> 0,
     broken |-> FALSE] >>

\* The row computed for (package, timestamp) from the draws d
TamperRow(package_id, timestamp, d) ==
    LET tilt_angle == Max(0, d.tilt + d.tilt_spike)
        light_exposure_lux == Max(0, d.light + d.light_spike)
    IN  [timestamp |-> timestamp,
         package_id |-> package_id,
         tilt_angle |-> Round(tilt_angle, 100),
         light_exposure_lux |-> Round(light_exposure_lux, 1000),
         seal_status |-> IF d.broken THEN "broken" ELSE "intact"]

\* One pass of the inner loop
generate_package_tamper_data ==
    /\ pc = "gen_tamper"
    /\ ent <= NumEntities
    /\ data' = Append(data, TamperRow(Packages[ent], timestamps[ts],
                                      Draw(DrawsTamper)))
    /\ drawn' = Advance(1)
    /\ IF ts < NumTimestamps THEN ts' = ts + 1 /\ ent' = ent
                             ELSE ts' = 1 /\ ent' = ent + 1
    /\ UNCHANGED <<now, seed, pc, error, running, tamperVars, notTamper>>

----------------------------------------------------------------------------
(* Package security: alerts and main *)

TamperAlertsOfRowElse(row) ==
    IF row.seal_status = "broken"
    THEN << [type |-> "Broken Seal", package |-> row.package_id,
             status |-> "broken", severity |-> "Critical"] >>
    ELSE IF row.tilt_angle > 45000
    THEN << [type |-> "High Tilt", package |-> row.package_id,
             value |-> row.tilt_angle, threshold |-> 45000,
             severity |-> "Warning"] >>
    ELSE IF row.light_exposure_lux > 1000000
    THEN << [type |-> "High Light Exposure", package |-> row.package_id,
             value |-> row.light_exposure_lux, threshold |-> 1000000,
             severity |-> "Warning"] >>
    ELSE << >>

TamperAlertsOfRow(row) ==
    (IF row.tilt_angle > 45000
        THEN << [type |-> "High Tilt", package |-> row.package_id,
                 value |-> row.tilt_angle, threshold |-> 45000,
                 severity |-> "Warning"] >>
        ELSE << >>)
    \o (IF row.light_exposure_lux > 1000000
        THEN << [type |-> "High Light Exposure", package |-> row.package_id,
                 value |-> row.light_exposure_lux, threshold |-> 1000000,
                 severity |-> "Warning"] >>
        ELSE << >>)
    \o (IF row.seal_status = "broken"
        THEN << [type |-> "Broken Seal", package |-> row.package_id,
                 status |-> "broken", severity |-> "Critical"] >>
        ELSE << >>)

check_tampering_alerts(df) ==
    LET latest == GroupbyLast(df, "package_id")
    IN  Concat([n \in 1..Len(latest) |-> TamperAlertsOfRow(latest[n])])

LoadTampering ==
    /\ pc = "gen_tamper"
    /\ ent > NumEntities
    /\ tampering_data' = data
    /\ tamper_alerts' = check_tampering_alerts(data)
    /\ pc' = "tab8"
    /\ UNCHANGED <<now, error, genVars, selected_package, tamper_period,
                   filtered_tamper, current_tamper_alerts, latest_tamper,
                   tamper_kpis, notTamper>>

Tab8TimeFilter(df, period) ==
    IF period = "Last 24 Hours" THEN LastDays(df, 1)
    ELSE IF period = "Last 3 Days" THEN LastDays(df, 3)
    ELSE df

risk_score(row) ==
    (IF row.tilt_angle > 45000 THEN 30 ELSE 0)
    + (IF row.light_exposure_lux > 1000000 THEN 40 ELSE 0)
    + (IF row.seal_status = "broken" THEN 50 ELSE 0)

\* pd.cut(x, bins=[0, 20, 50, 100], labels=['Low', 'Medium', 'High']): the
\* bins are open on the left and closed on the right; a value in no bin has
\* no label
RiskBucket(x) ==
    IF 0 < x /\ x <= 20 THEN "Low"
    ELSE IF 20 < x /\ x <= 50 THEN "Medium"
    ELSE IF 50 < x /\ x <= 100 THEN "High"
    ELSE "NaN"

TableAfterRiskScoreInPlace(table, latest) ==
    [n \in DOMAIN table |->
        [col \in DOMAIN table[n] \cup {"risk_score"} |->
            IF col = "risk_score" THEN risk_score(table[n]) ELSE table[n][col]]]

\* What tampering_data holds after latest_tamper['risk_score'] = ...:
\* latest_tamper is the new frame that groupby().last().reset_index()
\* returned, so the column is added to that frame only
TableAfterRiskScore(table, latest) == table

\* with tab8: filters, alert banner, KPIs, the risk_score column added to
\* latest_tamper and the risk distribution
Tab8PackageSecurity ==
    /\ pc = "tab8"
    /\ \E p \in {All} \cup Range(Packages), r \in TimeRanges :
         /\ selected_package' = p
         /\ tamper_period' = r
         /\ filtered_tamper' =
                IF p # All
                THEN SelectSeq(Tab8TimeFilter(tampering_data, r),
                               LAMBDA row : row.package_id = p)
                ELSE Tab8TimeFilter(tampering_data, r)
         /\ current_tamper_alerts' =
                SelectSeq(tamper_alerts, LAMBDA a : p = All \/ a.package = p)
    /\ LET latest == GroupbyLast(filtered_tamper', "package_id")
       IN  /\ latest_tamper' =
                  [n \in 1..Len(latest) |->
                      [col \in DOMAIN latest[n] \cup {"risk_score"} |->
                          IF col = "risk_score" THEN risk_score(latest[n])
                          ELSE latest[n][col]]]
           /\ tamper_kpis' =
                  [total_packages |-> Len(latest),
                   high_tilt_count |->
                      Len(SelectSeq(latest, LAMBDA row : row.tilt_angle > 45000)),
                   high_light_count |->
                      Len(SelectSeq(latest, LAMBDA row : row.light_exposure_lux > 1000000)),
                   broken_seal_count |->
                      Len(SelectSeq(latest, LAMBDA row : row.seal_status = "broken")),
                   risk_distribution |->
                      [label \in {"Low", "Medium", "High"} |->
                          Len(SelectSeq(latest_tamper',
                                LAMBDA row : RiskBucket(row.risk_score) = label))]]
    /\ tampering_data' = TableAfterRiskScore(tampering_data, latest_tamper')
    /\ pc' = "done"
    /\ UNCHANGED <<now, error, genVars, tamper_alerts, notTamper>>

RerunTamper ==
    /\ pc = "done"
    /\ pc' = "gen_tamper"
    /\ UNCHANGED <<now, error, genVars, tamperVars, notTamper>>

InitTamper == InitGen /\ InitTables /\ pc = "gen_tamper"

NextTamper ==
    \/ generate_package_tamper_data
    \/ LoadTampering
    \/ Tab8PackageSecurity
    \/ RerunTamper

SpecTamper == InitTamper /\ [][NextTamper]_vars

----------------------------------------------------------------------------
(* Machine status: generator *)

notStatus == <<pmVars, envVars, oeeVars, ccVars, invVars, tamperVars, whVars,
              mainVars>>

\* Outcomes of the draws of one row: the roll that decides is_running, the
\* maintenance and fault rolls, the position u (in thousandths) of the
\* uniform draws in their ranges and the normal noise of the energy
DrawsStatus == <<
    [roll |-> 500, maint |-> FALSE, fault |-> FALSE, u |-> 500,  nen |-> 0],
    [roll |-> 50,  maint |-> TRUE,  fault |-> FALSE, u |-> 0,    nen |-> -2000],
    [roll |-> 50,  maint |-> FALSE, fault |-> TRUE,  u |-> 1000, nen |-> 2000],
    [roll |-> 990, maint |-> TRUE,  fault |-> FALSE, u |-> 500,  nen |-> 0] >>

\* The probability (in thousandths) that a machine runs at a time
RunningChance(t) ==
    IF Weekday(t) < 5
    THEN IF 6 <= Hour(t) /\ Hour(t) <= 22 THEN 950 ELSE 100
    ELSE 300

StatusOfAnyDraw(is_running, d) ==
    IF d.maint THEN "Maintenance"
    ELSE IF d.fault THEN "Fault"
    ELSE IF is_running THEN "Running"
    ELSE "Stopped"

\* The status of a pass: the maintenance and fault rolls are made only when
\* the machine was drawn as running
StatusOf(is_running, d) ==
    IF ~is_running THEN "Stopped"
    ELSE IF d.maint THEN "Maintenance"
    ELSE IF d.fault THEN "Fault"
    ELSE "Running"

\* The row computed for (machine, timestamp) from the draws d
StatusRow(machine_id, timestamp, d) ==
    LET is_running == d.roll < RunningChance(timestamp)
        status == StatusOf(is_running, d)
        rpm == IF status = "Running"
               THEN 1200000 + d.u * 600 + Sin24[Hour(timestamp) + 1] * 1000
               ELSE IF status = "Fault" THEN d.u * 500
               ELSE 0
        energy_kWh == IF status = "Running" THEN 15000 + d.u * 10 + d.nen
                      ELSE IF status = "Maintenance" THEN 1000 + d.u * 2
                      ELSE IF status = "Fault" THEN 5000 + d.u * 10
                      ELSE 500 + (d.u * 3) \div 2
    IN  [timestamp |-> timestamp,
         machine_id |-> machine_id,
         rpm |-> Round(rpm, 1000),
         energy_kWh |-> Round(energy_kWh, 10),
         status |-> status]

\* One pass of the inner loop
generate_machine_status_data ==
    /\ pc = "gen_status"
    /\ ent <= NumEntities
    /\ data' = Append(data, StatusRow(Machines[ent], timestamps[ts],
                                      Draw(DrawsStatus)))
    /\ running' = [is_running |->
                       Draw(DrawsStatus).roll < RunningChance(timestamps[ts])]
    /\ drawn' = Advance(1)
    /\ IF ts < NumTimestamps THEN ts' = ts + 1 /\ ent' = ent
                             ELSE ts' = 1 /\ ent' = ent + 1
    /\ UNCHANGED <<now, seed, pc, error, statusVars, notStatus>>

----------------------------------------------------------------------------
(* Machine status: main *)

LoadStatus ==
    /\ pc = "gen_status"
    /\ ent > NumEntities
    /\ machine_status_data' = data
    /\ pc' = "tab2"
    /\ UNCHANGED <<now, error, genVars, real_time_enabled, selected_machine_status,
                   status_filter, filtered_status, latest_status, new_df, updates,
                   slept, notStatus>>

StatusFilters == {"All", "Running", "Stopped", "Maintenance", "Fault"}

\* with tab2: the checkbox, the filters and, when the checkbox is off, the
\* static analysis
Tab2MachineStatus ==
    /\ pc = "tab2"
    /\ \E rt \in BOOLEAN, m \in {All} \cup Range(Machines), f \in StatusFilters :
         LET byMachine == IF m # All
                          THEN SelectSeq(machine_status_data,
                                         LAMBDA row : row.machine_id = m)
                          ELSE machine_status_data
             filtered == IF f # "All"
                         THEN SelectSeq(byMachine, LAMBDA row : row.status = f)
                         ELSE byMachine
         IN  /\ real_time_enabled' = rt
             /\ selected_machine_status' = m
             /\ status_filter' = f
             /\ filtered_status' = filtered
             /\ latest_status' = IF rt THEN << >>
                                 ELSE GroupbyLast(filtered, "machine_id")
             /\ pc' = IF rt THEN "realtime" ELSE "done"
    /\ new_df' = << >>
    /\ updates' = 0
    /\ slept' = 0
    /\ UNCHANGED <<now, error, genVars, machine_status_data, notStatus>>

\* for _ in range(5)
RealTimeUpdates == 5
\* time.sleep(2)
SleepSeconds == 2

\* Outcomes of the draws of one machine in one update: the roll that decides
\* the status and the position u (in thousandths) of the uniform draws
DrawsRealTime == <<
    [roll |-> 100, u |-> 500],
    [roll |-> 950, u |-> 0],
    [roll |-> 899, u |-> 1000],
    [roll |-> 900, u |-> 500] >>

RealTimeRowWithFaults(machine_id, k) ==
    LET d == DrawAt(DrawsRealTime, k)
        running_now == d.roll < 900
    IN  [timestamp |-> now,
         machine_id |-> machine_id,
         rpm |-> IF running_now THEN Round(1400000 + d.u * 300, 1000) ELSE 0,
         energy_kWh |-> IF running_now THEN Round(18000 + d.u * 5, 10)
                        ELSE Round(500 + (d.u * 3) \div 2, 10),
         status |-> IF running_now THEN "Running"
                    ELSE IF d.roll >= 950 THEN "Fault" ELSE "Stopped"]

\* The entry of new_data for the k-th machine (from 0) of an update
RealTimeRow(machine_id, k) ==
    LET d == DrawAt(DrawsRealTime, k)
        running_now == d.roll < 900
    IN  [timestamp |-> now,
         machine_id |-> machine_id,
         rpm |-> IF running_now THEN Round(1400000 + d.u * 300, 1000) ELSE 0,
         energy_kWh |-> IF running_now THEN Round(18000 + d.u * 5, 10)
                        ELSE Round(500 + (d.u * 3) \div 2, 10),
         status |-> IF running_now THEN "Running" ELSE "Stopped"]

\* One pass of the real-time loop: new_df is built and shown, then the
\* script sleeps
RealTimeUpdate ==
    /\ pc = "realtime"
    /\ updates < RealTimeUpdates
    /\ LET ms == IF selected_machine_status = All THEN Machines
                 ELSE <<selected_machine_status>>
       IN  /\ new_df' = [k \in 1..Len(ms) |-> RealTimeRow(ms[k], k - 1)]
           /\ drawn' = Advance(Len(ms))
    /\ updates' = updates + 1
    /\ slept' = slept + SleepSeconds
    /\ UNCHANGED <<now, seed, pc, error, data, ent, ts, running,
                   machine_status_data, real_time_enabled, selected_machine_status,
                   status_filter, filtered_status, latest_status, notStatus>>

RealTimeEndEarly ==
    /\ pc = "realtime"
    /\ updates >= 1
    /\ pc' = "done"
    /\ UNCHANGED <<now, error, genVars, statusVars, notStatus>>

\* The loop is exhausted and the script goes on to the next tab
RealTimeEnd ==
    /\ pc = "realtime"
    /\ updates >= RealTimeUpdates
    /\ pc' = "done"
    /\ UNCHANGED <<now, error, genVars, statusVars, notStatus>>

RerunStatus ==
    /\ pc = "done"
    /\ pc' = "gen_status"
    /\ UNCHANGED <<now, error, genVars, statusVars, notStatus>>

InitStatus == InitGen /\ InitTables /\ pc = "gen_status"

NextStatus ==
    \/ generate_machine_status_data
    \/ LoadStatus
    \/ Tab2MachineStatus
    \/ RealTimeUpdate
    \/ RealTimeEnd
    \/ RerunStatus

SpecStatus == InitStatus /\ [][NextStatus]_vars

\* One script run, which is never suspended for good: a step of the run that
\* can be taken is taken.  How the run ends does not depend on the values of
\* the table, so the streams are the constant ones.
NextStatusRun ==
    \/ generate_machine_status_data
    \/ LoadStatus
    \/ Tab2MachineStatus
    \/ RealTimeUpdate
    \/ RealTimeEnd

\* One script run with every stream
SpecStatusRun == InitStatus /\ [][NextStatusRun]_vars

InitStatusRun ==
    /\ InitStatus
    /\ \E c \in 1..4 : seed = [i \in 1..StreamLen |-> c]

SpecStatusLive ==
    InitStatusRun /\ [][NextStatusRun]_vars /\ WF_vars(NextStatusRun)

----------------------------------------------------------------------------
(* Warehouse environment *)

notWh == <<pmVars, envVars, oeeVars, ccVars, invVars, tamperVars, statusVars,
          mainVars>>

\* Outcomes of the draws of one row: the normal noises of temperature,
\* humidity, CO2 and AQI and the CO2 spike (0 when the spike is not drawn)
DrawsWh == <<
    [nt |-> 0,     nh |-> 0,      nc |-> 0,       sc |-> 0,       na |-> 0],
    [nt |-> 2000,  nh |-> 30000,  nc |-> 100000,  sc |-> 1000000, na |-> 15000],
    [nt |-> -2000, nh |-> -30000, nc |-> -100000, sc |-> 0,       na |-> -80000],
    [nt |-> 0,     nh |-> 8000,   nc |-> 0,       sc |-> 400000,  na |-> -15000] >>

\* The activity level (in thousandths) at a time
activity(t) ==
    IF Weekday(t) < 5 /\ 6 <= Hour(t) /\ Hour(t) <= 18 THEN 800
    ELSE IF Weekday(t) < 5 /\ 18 <= Hour(t) /\ Hour(t) <= 22 THEN 400
    ELSE 100

\* The row computed for (warehouse, timestamp) from the draws d
WhRow(warehouse_id, timestamp, d) ==
    LET act == activity(timestamp)
        temp == 20000 + act * 3 + d.nt
        humidity == Clip(50000 + act * 10 + d.nh, 30000, 80000)
        co2 == 450000 + act * 600 + d.nc + d.sc
        aqi == Max(0, 30000 + act * 40
                      + (IF co2 > 1000000 THEN ((co2 - 1000000) * 3) \div 100 ELSE 0)
                      + d.na)
    IN  [timestamp |-> timestamp,
         warehouse_id |-> warehouse_id,
         temp |-> Round(temp, 100),
         humidity |-> Round(humidity, 100),
         co2 |-> Round(co2, 1000),
         aqi |-> Round(aqi, 1000)]

\* One pass of the inner loop
generate_warehouse_environment_data ==
    /\ pc = "gen_wh"
    /\ ent <= NumEntities
    /\ data' = Append(data, WhRow(Warehouses[ent], timestamps[ts], Draw(DrawsWh)))
    /\ drawn' = Advance(1)
    /\ IF ts < NumTimestamps THEN ts' = ts + 1 /\ ent' = ent
                             ELSE ts' = 1 /\ ent' = ent + 1
    /\ UNCHANGED <<now, seed, pc, error, running, whVars, notWh>>

LoadWarehouse ==
    /\ pc = "gen_wh"
    /\ ent > NumEntities
    /\ warehouse_env_data' = data
    /\ pc' = "tab6"
    /\ UNCHANGED <<now, error, genVars, selected_warehouse, filtered_wh, latest_wh,
                   notWh>>

\* with tab6: filter and KPIs
Tab6WarehouseEnvironment ==
    /\ pc = "tab6"
    /\ \E w \in {All} \cup Range(Warehouses) :
         LET filtered == IF w # All
                         THEN SelectSeq(warehouse_env_data,
                                        LAMBDA row : row.warehouse_id = w)
                         ELSE warehouse_env_data
         IN  /\ selected_warehouse' = w
             /\ filtered_wh' = filtered
             /\ latest_wh' = GroupbyLast(filtered, "warehouse_id")
    /\ pc' = "done"
    /\ UNCHANGED <<now, error, genVars, warehouse_env_data, notWh>>

RerunWh ==
    /\ pc = "done"
    /\ pc' = "gen_wh"
    /\ UNCHANGED <<now, error, genVars, whVars, notWh>>

InitWh == InitGen /\ InitTables /\ pc = "gen_wh"

NextWh ==
    \/ generate_warehouse_environment_data
    \/ LoadWarehouse
    \/ Tab6WarehouseEnvironment
    \/ RerunWh

SpecWh == InitWh /\ [][NextWh]_vars

----------------------------------------------------------------------------
(* main: the calls of the eight cached generators, the alert checks and    *)
(* the sidebar summary.  The tabs, each of which reads its own table and   *)
(* alert list only, are followed in the specifications of the tables.      *)

\* The generators in the order main calls them
Generators == <<"predictive_maintenance", "machine_status", "factory_environment",
                "oee", "cold_chain", "warehouse_environment", "inventory",
                "package_tamper">>

\* Where the body of a generator starts and where it returns
EntryPc ==
    [g \in Range(Generators) |->
        CASE g = "predictive_maintenance" -> "gen_pm"
          [] g = "machine_status" -> "gen_status"
          [] g = "factory_environment" -> "gen_env"
          [] g = "oee" -> "gen_oee"
          [] g = "cold_chain" -> "gen_cc"
          [] g = "warehouse_environment" -> "gen_wh"
          [] g = "inventory" -> "cfg_inv"
          [] g = "package_tamper" -> "gen_tamper"]
ReturnPc == [g \in Range(Generators) |-> IF g = "inventory" THEN "gen_inv" ELSE EntryPc[g]]

\* The variable of main that receives the table of generator g
Assign(g, table) ==
    /\ predictive_data' = IF g = "predictive_maintenance" THEN table ELSE predictive_data
    /\ machine_status_data' = IF g = "machine_status" THEN table ELSE machine_status_data
    /\ environment_data' = IF g = "factory_environment" THEN table ELSE environment_data
    /\ oee_data' = IF g = "oee" THEN table ELSE oee_data
    /\ cold_chain_data' = IF g = "cold_chain" THEN table ELSE cold_chain_data
    /\ warehouse_env_data' = IF g = "warehouse_environment" THEN table
                             ELSE warehouse_env_data
    /\ inventory_data' = IF g = "inventory" THEN table ELSE inventory_data
    /\ tampering_data' = IF g = "package_tamper" THEN table ELSE tampering_data

tables == <<predictive_data, machine_status_data, environment_data, oee_data,
            cold_chain_data, warehouse_env_data, inventory_data, tampering_data>>
alertLists == <<pm_alerts, env_alerts, cc_alerts, inv_alerts, tamper_alerts>>

\* What the tabs compute, which the calls and the alert checks leave alone
renderVars ==
    <<selected_machine, time_range, filtered_data, current_pm_alerts, latest_data,
      critical_machines,
      real_time_enabled, selected_machine_status, status_filter, filtered_status,
      latest_status, new_df, updates, slept,
      selected_zone, filtered_env, current_env_alerts, latest_env,
      selected_line, oee_period, filtered_oee, latest_oee,
      selected_shipment, selected_truck, filtered_cc, current_cc_alerts, latest_cc,
      temp_violations,
      selected_warehouse, filtered_wh, latest_wh,
      selected_sku, selected_warehouse_inv, filtered_inv, current_inv_alerts,
      latest_inv, restock_needed, low_stock_items,
      selected_package, tamper_period, filtered_tamper, current_tamper_alerts,
      latest_tamper, tamper_kpis>>

\* main up to the spinner
MainStart ==
    /\ pc = "start"
    /\ pc' = "main"
    /\ loading' = 1
    /\ UNCHANGED <<now, error, genVars, tables, alertLists, renderVars, sku_configs,
                   cache, body_runs, rerun, total_alerts>>

CacheNever(g, stored) == FALSE

\* st.cache_data: whether a call of g is answered from the cache
CacheHit(g, stored) == g \in DOMAIN stored

\* A call of a generator: answered from the cache, or its body is entered
MainCall ==
    /\ pc = "main"
    /\ loading \in DOMAIN Generators
    /\ LET g == Generators[loading]
       IN  IF CacheHit(g, cache)
           THEN /\ Assign(g, cache[g])
                /\ loading' = loading + 1
                /\ UNCHANGED <<pc, data, ent, ts, running, body_runs>>
           ELSE /\ pc' = EntryPc[g]
                /\ data' = << >>
                /\ ent' = 1
                /\ ts' = 1
                /\ running' = 0
                /\ body_runs' =
                       [h \in DOMAIN body_runs \cup {g} |->
                           IF h # g THEN body_runs[h]
                           ELSE IF g \in DOMAIN body_runs THEN body_runs[g] + 1
                           ELSE 1]
                /\ UNCHANGED <<loading, tables>>
    /\ UNCHANGED <<now, seed, drawn, error, alertLists, renderVars, sku_configs,
                   cache, rerun, total_alerts>>

\* The body returns: the table is stored in the cache and handed to main
MainReturn ==
    /\ loading \in DOMAIN Generators
    /\ pc = ReturnPc[Generators[loading]]
    /\ ent > NumEntities
    /\ cache' = (Generators[loading] :> data) @@ cache
    /\ Assign(Generators[loading], data)
    /\ pc' = "main"
    /\ loading' = loading + 1
    /\ UNCHANGED <<now, error, genVars, alertLists, renderVars, sku_configs,
                   body_runs, rerun, total_alerts>>

\* The five alert checks and the alert summary of the sidebar
MainCheckAlerts ==
    /\ pc = "main"
    /\ loading = Len(Generators) + 1
    /\ pm_alerts' = check_predictive_maintenance_alerts(predictive_data)
    /\ env_alerts' = check_environment_alerts(environment_data)
    /\ cc_alerts' = check_cold_chain_alerts(cold_chain_data)
    /\ inv_alerts' = check_inventory_alerts(inventory_data)
    /\ tamper_alerts' = check_tampering_alerts(tampering_data)
    /\ total_alerts' = Len(pm_alerts') + Len(env_alerts') + Len(cc_alerts')
                       + Len(inv_alerts') + Len(tamper_alerts')
    /\ pc' = "done"
    /\ UNCHANGED <<now, error, genVars, tables, renderVars, sku_configs, cache,
                   body_runs, loading, rerun>>

\* A widget change reruns the script from the top
MainRerun ==
    /\ pc = "done"
    /\ pc' = "main"
    /\ loading' = 1
    /\ rerun' = TRUE
    /\ UNCHANGED <<now, error, genVars, tables, alertLists, renderVars, sku_configs,
                   cache, body_runs, total_alerts>>

InitMain == InitGen /\ InitTables /\ pc = "start"

NextMain ==
    \/ MainStart
    \/ MainCall
    \/ generate_predictive_maintenance_data
    \/ generate_machine_status_data
    \/ generate_factory_environment_data
    \/ generate_oee_data
    \/ generate_cold_chain_data
    \/ generate_warehouse_environment_data
    \/ BuildSkuConfigs
    \/ generate_inventory_data
    \/ generate_package_tamper_data
    \/ MainReturn
    \/ MainCheckAlerts
    \/ MainRerun

SpecMain == InitMain /\ [][NextMain]_vars

----------------------------------------------------------------------------
(* The renders of all tabs: every table with its tab, one table at a time. *)
(* What a render does to a table does not depend on the values of its      *)
(* rows, so the streams are the constant ones.                             *)

\* The script run at hand shows the tab of this table
Showing(table) == pc = "done" => table # << >>

InitRender ==
    /\ \/ InitPM \/ InitStatus \/ InitEnv \/ InitOEE
       \/ InitCC \/ InitWh \/ InitInv \/ InitTamper
    /\ \E c \in 1..4 : seed = [i \in 1..StreamLen |-> c]

NextRender ==
    \/ Showing(predictive_data) /\ NextPM
    \/ Showing(machine_status_data) /\ NextStatus
    \/ Showing(environment_data) /\ NextEnv
    \/ Showing(oee_data) /\ NextOEE
    \/ Showing(cold_chain_data) /\ NextCC
    \/ Showing(warehouse_env_data) /\ NextWh
    \/ Showing(inventory_data) /\ NextInv
    \/ Showing(tampering_data) /\ NextTamper

SpecRender == InitRender /\ [][NextRender]_vars

----------------------------------------------------------------------------
(* Helpers of the properties *)

\* The row of entity k with the greatest timestamp
NewestRow(df, key, k) ==
    CHOOSE r \in Rows(df) :
        /\ r[key] = k
        /\ \A q \in Rows(df) : q[key] = k => q.timestamp <= r.timestamp

\* Number of alerts of a type raised for an entity
NumAlerts(alerts, field, k, type) ==
    Cardinality({i \in DOMAIN alerts : alerts[i][field] = k /\ alerts[i].type = type})

Fires(cond) == IF cond THEN 1 ELSE 0

\* sub is made of distinct rows of df
IsSubTable(sub, df) ==
    /\ Rows(sub) \subseteq Rows(df)
    /\ Cardinality(Rows(sub)) = Len(sub)

----------------------------------------------------------------------------
(* C1: for every machine of the table, a High Vibration alert is raised iff *)
(* the machine's latest vibration_rms > 12, a High Temperature alert iff    *)
(* its latest temperature_C > 80, a High Failure Risk alert iff its latest  *)
(* failure_risk_score > 70; there are no other alerts, and a value equal to *)
(* its threshold does not fire.                                             *)
C1_PMAlertsIffAboveThreshold ==
    /\ \A m \in Keys(predictive_data, "machine_id") :
         LET row == NewestRow(predictive_data, "machine_id", m)
         IN  /\ NumAlerts(pm_alerts, "machine", m, "High Vibration")
                    = Fires(row.vibration_rms > 12000)
             /\ NumAlerts(pm_alerts, "machine", m, "High Temperature")
                    = Fires(row.temperature_C > 80000)
             /\ NumAlerts(pm_alerts, "machine", m, "High Failure Risk")
                    = Fires(row.failure_risk_score > 70000)
    /\ \A i \in DOMAIN pm_alerts :
         /\ pm_alerts[i].type \in {"High Vibration", "High Temperature", "High Failure Risk"}
         /\ pm_alerts[i].machine \in Keys(predictive_data, "machine_id")

\* A machine whose latest readings all sit exactly on their thresholds raises
\* nothing while another machine raises an alert
C1_Witness ==
    /\ pc = "done"
    /\ pm_alerts # << >>
    /\ \E m \in Keys(predictive_data, "machine_id") :
         LET row == NewestRow(predictive_data, "machine_id", m)
         IN  /\ row.vibration_rms = 12000
             /\ row.temperature_C = 80000
             /\ row.failure_risk_score = 70000
             /\ \A i \in DOMAIN pm_alerts : pm_alerts[i].machine # m

----------------------------------------------------------------------------
----------------------------------------------------------------------------
(* C10: in every row of generate_predictive_maintenance_data the            *)
(* failure_risk_score is within [0, 100], whatever vibration and            *)
(* temperature excursions were added to the base risk.                      *)
C10_FailureRiskWithinBounds ==
    \A r \in Rows(data) \cup Rows(predictive_data) :
        0 <= r.failure_risk_score /\ r.failure_risk_score <= 100000

\* A row whose vibration and temperature excursions were both added and
\* whose risk was capped at 100
C10_Witness ==
    \E r \in Rows(predictive_data) :
        /\ r.vibration_rms > 12000
        /\ r.temperature_C > 80000
        /\ r.failure_risk_score = 100000

----------------------------------------------------------------------------
(* C5: for every zone of the table, a High CO2 alert is raised iff the      *)
(* zone's latest co2_ppm > 1500, a Poor Air Quality alert iff its latest    *)
(* aqi > 100, a High Noise alert iff its latest noise_db > 90; there are no *)
(* other alerts.                                                            *)
C5_EnvAlertsIffAboveThreshold ==
    /\ \A z \in Keys(environment_data, "zone_id") :
         LET row == NewestRow(environment_data, "zone_id", z)
         IN  /\ NumAlerts(env_alerts, "zone", z, "High CO2")
                    = Fires(row.co2_ppm > 1500000)
             /\ NumAlerts(env_alerts, "zone", z, "Poor Air Quality")
                    = Fires(row.aqi > 100000)
             /\ NumAlerts(env_alerts, "zone", z, "High Noise")
                    = Fires(row.noise_db > 90000)
    /\ \A i \in DOMAIN env_alerts :
         /\ env_alerts[i].type \in {"High CO2", "Poor Air Quality", "High Noise"}
         /\ env_alerts[i].zone \in Keys(environment_data, "zone_id")

\* A zone whose latest readings all sit exactly on their thresholds raises
\* nothing while another zone raises an alert
C5_Witness ==
    /\ pc = "done"
    /\ env_alerts # << >>
    /\ \E z \in Keys(environment_data, "zone_id") :
         LET row == NewestRow(environment_data, "zone_id", z)
         IN  /\ row.co2_ppm = 1500000
             /\ row.aqi = 100000
             /\ row.noise_db = 90000
             /\ \A i \in DOMAIN env_alerts : env_alerts[i].zone # z


----------------------------------------------------------------------------
(* C2: for every shipment of the table exactly one Temperature Deviation    *)
(* alert is raised if the latest cold_storage_temp differs from the         *)
(* shipment's target_temp by more than 5 in absolute value, and none        *)
(* otherwise; a deviation of exactly 5, above or below, does not fire.      *)
C2_CCAlertsIffDeviationAbove5 ==
    /\ \A s \in Keys(cold_chain_data, "shipment_id") :
         LET row == NewestRow(cold_chain_data, "shipment_id", s)
             up == row.cold_storage_temp - row.target_temp
         IN  NumAlerts(cc_alerts, "shipment", s, "Temperature Deviation")
                = Fires(up > 5000 \/ up < -5000)
    /\ \A i \in DOMAIN cc_alerts :
         /\ cc_alerts[i].type = "Temperature Deviation"
         /\ cc_alerts[i].shipment \in Keys(cold_chain_data, "shipment_id")

\* One shipment is exactly 5 below its target and raises nothing, another is
\* more than 5 away and raises its alert
C2_Witness ==
    /\ pc = "done"
    /\ \E s1, s2 \in Keys(cold_chain_data, "shipment_id") :
         LET r1 == NewestRow(cold_chain_data, "shipment_id", s1)
             r2 == NewestRow(cold_chain_data, "shipment_id", s2)
         IN  /\ r1.cold_storage_temp - r1.target_temp = -5000
             /\ NumAlerts(cc_alerts, "shipment", s1, "Temperature Deviation") = 0
             /\ Abs(r2.cold_storage_temp - r2.target_temp) > 5000
             /\ NumAlerts(cc_alerts, "shipment", s2, "Temperature Deviation") = 1


----------------------------------------------------------------------------
(* C3: for every SKU of the table exactly one Low Stock alert is raised iff *)
(* the SKU's latest stock_level is at most its reorder_point, and the alert *)
(* carries the warehouse_id, stock_level and reorder_point of that same     *)
(* latest row.                                                              *)
C3_InvAlertsIffAtOrBelowReorder ==
    /\ \A s \in Keys(inventory_data, "sku_id") :
         LET row == NewestRow(inventory_data, "sku_id", s)
         IN  NumAlerts(inv_alerts, "sku", s, "Low Stock")
                = Fires(row.stock_level <= row.reorder_point)
    /\ \A i \in DOMAIN inv_alerts :
         /\ inv_alerts[i].type = "Low Stock"
         /\ inv_alerts[i].sku \in Keys(inventory_data, "sku_id")
         /\ LET row == NewestRow(inventory_data, "sku_id", inv_alerts[i].sku)
            IN  /\ inv_alerts[i].warehouse = row.warehouse_id
                /\ inv_alerts[i].stock_level = row.stock_level
                /\ inv_alerts[i].reorder_point = row.reorder_point

\* A SKU whose latest stock equals its reorder point raises its alert while a
\* SKU in another warehouse, above its reorder point, raises none
C3_Witness ==
    /\ pc = "done"
    /\ \E s1, s2 \in Keys(inventory_data, "sku_id") :
         LET r1 == NewestRow(inventory_data, "sku_id", s1)
             r2 == NewestRow(inventory_data, "sku_id", s2)
         IN  /\ r1.stock_level = r1.reorder_point
             /\ NumAlerts(inv_alerts, "sku", s1, "Low Stock") = 1
             /\ r2.stock_level > r2.reorder_point
             /\ r2.warehouse_id # r1.warehouse_id
             /\ NumAlerts(inv_alerts, "sku", s2, "Low Stock") = 0

----------------------------------------------------------------------------
----------------------------------------------------------------------------
(* C8: for every combination of filter selections, also those that leave    *)
(* zero rows, the rendering of the tab completes without raising an error.  *)
C8_RenderRaisesNoError == error = "none"


----------------------------------------------------------------------------
(* C4: for every package of the table, a High Tilt alert is raised iff the  *)
(* package's latest tilt_angle > 45, a High Light Exposure alert iff its    *)
(* latest light_exposure_lux > 1000, a Broken Seal alert iff its latest     *)
(* seal_status is broken; the three are evaluated independently, so a       *)
(* package raises between 0 and 3 alerts.                                   *)
C4_TamperAlertsIndependent ==
    /\ \A p \in Keys(tampering_data, "package_id") :
         LET row == NewestRow(tampering_data, "package_id", p)
         IN  /\ NumAlerts(tamper_alerts, "package", p, "High Tilt")
                    = Fires(row.tilt_angle > 45000)
             /\ NumAlerts(tamper_alerts, "package", p, "High Light Exposure")
                    = Fires(row.light_exposure_lux > 1000000)
             /\ NumAlerts(tamper_alerts, "package", p, "Broken Seal")
                    = Fires(row.seal_status = "broken")
    /\ \A i \in DOMAIN tamper_alerts :
         /\ tamper_alerts[i].type \in {"High Tilt", "High Light Exposure", "Broken Seal"}
         /\ tamper_alerts[i].package \in Keys(tampering_data, "package_id")

\* One package raises all three alerts and another, whose tilt and light sit
\* exactly on their thresholds, raises none
C4_Witness ==
    /\ pc = "done"
    /\ \E p1, p2 \in Keys(tampering_data, "package_id") :
         LET r2 == NewestRow(tampering_data, "package_id", p2)
         IN  /\ Cardinality({i \in DOMAIN tamper_alerts :
                                tamper_alerts[i].package = p1}) = 3
             /\ r2.tilt_angle = 45000
             /\ r2.light_exposure_lux = 1000000
             /\ \A i \in DOMAIN tamper_alerts : tamper_alerts[i].package # p2

----------------------------------------------------------------------------
(* C9: in every row of generate_oee_data availability_percent and           *)
(* performance_percent are in [0, 100] and quality_percent is in [70, 100], *)
(* also in the rows where an issue was injected.                            *)
C9_OEEWithinClipBounds ==
    \A r \in Rows(data) \cup Rows(oee_data) :
        /\ 0 <= r.availability_percent /\ r.availability_percent <= 100000
        /\ 0 <= r.performance_percent /\ r.performance_percent <= 100000
        /\ 70000 <= r.quality_percent /\ r.quality_percent <= 100000


----------------------------------------------------------------------------
----------------------------------------------------------------------------
(* C12: the severity of every alert of the five alert lists is determined  *)
(* by its type alone: High Temperature, High Failure Risk, Temperature     *)
(* Deviation and Broken Seal are Critical; High Vibration, High CO2, Poor  *)
(* Air Quality, High Noise, Low Stock, High Tilt and High Light Exposure   *)
(* are Warning, however far the value is past the threshold.               *)
C12_SeverityIsFunctionOfType ==
    LET SeverityOf(type) ==
            IF type \in {"High Temperature", "High Failure Risk",
                         "Temperature Deviation", "Broken Seal"}
            THEN "Critical"
            ELSE IF type \in {"High Vibration", "High CO2", "Poor Air Quality",
                              "High Noise", "Low Stock", "High Tilt",
                              "High Light Exposure"}
            THEN "Warning"
            ELSE "none"
        Static(alerts) ==
            \A i \in DOMAIN alerts : alerts[i].severity = SeverityOf(alerts[i].type)
    IN  /\ Static(pm_alerts)
        /\ Static(env_alerts)
        /\ Static(cc_alerts)
        /\ Static(inv_alerts)
        /\ Static(tamper_alerts)

\* The alerts were checked; a High Vibration alert and a High Light Exposure
\* alert are far past their thresholds, and two alerts of one type carry
\* different values
C12_Witness ==
    /\ pc = "done"
    /\ \E i \in DOMAIN pm_alerts :
         pm_alerts[i].type = "High Vibration" /\ pm_alerts[i].value > 15000
    /\ \E i \in DOMAIN tamper_alerts :
         /\ tamper_alerts[i].type = "High Light Exposure"
         /\ tamper_alerts[i].value > 2000000
    /\ \E i, j \in DOMAIN pm_alerts :
         /\ pm_alerts[i].type = pm_alerts[j].type
         /\ pm_alerts[i].value # pm_alerts[j].value
    /\ cc_alerts # << >>


----------------------------------------------------------------------------
(* C13: after any sequence of renders and reruns with any filter           *)
(* selections, the real-time mode and the risk_score column included, each *)
(* of the eight tables of main has the rows, columns and values of the     *)
(* list its generator returned.                                            *)
C13_TablesNeverMutated ==
    /\ predictive_data \in {<< >>, data}
    /\ machine_status_data \in {<< >>, data}
    /\ environment_data \in {<< >>, data}
    /\ oee_data \in {<< >>, data}
    /\ cold_chain_data \in {<< >>, data}
    /\ warehouse_env_data \in {<< >>, data}
    /\ inventory_data \in {<< >>, data}
    /\ tampering_data \in {<< >>, data}

\* The script was rerun after a render of the package tab that added the
\* risk_score column to latest_tamper, which the table does not have
C13_Witness ==
    /\ pc = "gen_tamper"
    /\ tampering_data # << >>
    /\ selected_package = All
    /\ tamper_period = "Last 7 Days"
    /\ Len(latest_tamper) = NumEntities
    /\ \A n \in DOMAIN latest_tamper : "risk_score" \in DOMAIN latest_tamper[n]
    /\ \A n \in DOMAIN tampering_data : "risk_score" \notin DOMAIN tampering_data[n]


----------------------------------------------------------------------------
(* C14: across any sequence of reruns the body of each generator is        *)
(* executed at most once, a table that main holds is assigned the same     *)
(* contents by every later call, and the alert checks of a rerun give the  *)
(* alert lists and the alert total of the first run.                       *)
C14_GeneratedOncePerProcess ==
    [][/\ \A g \in DOMAIN body_runs' : body_runs'[g] <= 1
       /\ \A i \in DOMAIN tables : tables[i] # << >> => tables'[i] = tables[i]
       /\ (rerun /\ pc = "main" /\ pc' = "done") =>
              /\ alertLists' = alertLists
              /\ total_alerts' = total_alerts]_vars

\* A rerun has called all eight generators and checked the alerts again
C14_Witness ==
    /\ rerun
    /\ pc = "done"
    /\ DOMAIN body_runs = Range(Generators)
    /\ \A g \in Range(Generators) : body_runs[g] = 1 /\ cache[g] # << >>
    /\ total_alerts > 0


----------------------------------------------------------------------------
\* The table generate_factory_environment_data builds when its first draw
\* is the element at position start of the stream
FactoryEnvironmentTable(start) ==
    [n \in 1..(NumEntities * NumTimestamps) |->
        EnvRow(Zones[((n - 1) \div NumTimestamps) + 1],
               timestamps[((n - 1) % NumTimestamps) + 1],
               DrawsEnv[seed[((start + n - 1) % StreamLen) + 1]])]

(* C15: the table a generator produces does not depend on the generators   *)
(* that ran before it: the factory environment table that main holds,      *)
(* built after the predictive maintenance and machine status generators,   *)
(* is the table the generator builds when it is the first to draw.         *)
C15_TableIndependentOfOtherGenerators ==
    environment_data # << >> => environment_data = FactoryEnvironmentTable(0)


----------------------------------------------------------------------------
(* C16: with 'Enable Real-Time Updates' checked the loop ends: the script  *)
(* leaves it after exactly 5 updates, each followed by one sleep of 2      *)
(* seconds, and goes on with the render; inside the loop the number of     *)
(* sleeps is the number of updates and never exceeds 5.                    *)
C16_RealTimeLoopTerminates ==
    /\ [](pc = "realtime" => updates <= 5 /\ slept = 2 * updates)
    /\ [](pc = "done" /\ real_time_enabled => updates = 5 /\ slept = 10)
    /\ (pc = "realtime") ~> (pc = "done" /\ updates = 5 /\ slept = 10)

\* The render went on after the fifth update and its sleep
C16_Witness ==
    /\ pc = "done"
    /\ real_time_enabled
    /\ updates = 5
    /\ slept = 10
    /\ Len(new_df) = NumEntities


----------------------------------------------------------------------------
(* C17: in every row of generate_oee_data, oee_percent is the product of   *)
(* the final availability, performance and quality of that pass (after the *)
(* issue multipliers) divided by 10000, the row holds the one-decimal      *)
(* roundings of these four values, and oee_percent lies in [0, 100] and    *)
(* exceeds none of the three components.  The product is compared on       *)
(* tenths of a percent, within the 0.005 lost by truncation.               *)
C17_OeeIsProductOfComponents ==
    (pc = "gen_oee" /\ data # << >>) =>
        LET row == data[Len(data)]
            a == running.availability_percent \div 100
            p == running.performance_percent \div 100
            q == running.quality_percent \div 100
        IN  /\ (a * p * q) \div 10000 - 5 <= running.oee_percent
            /\ running.oee_percent <= ((a + 1) * (p + 1) * (q + 1)) \div 10000 + 5
            /\ row.availability_percent = Round(running.availability_percent, 100)
            /\ row.performance_percent = Round(running.performance_percent, 100)
            /\ row.quality_percent = Round(running.quality_percent, 100)
            /\ row.oee_percent = Round(running.oee_percent, 100)
            /\ \A r \in Rows(data) :
                 /\ 0 <= r.oee_percent /\ r.oee_percent <= 100000
                 /\ r.oee_percent <= r.availability_percent
                 /\ r.oee_percent <= r.performance_percent
                 /\ r.oee_percent <= r.quality_percent

\* A work-hour pass of line 1 in which the availability/performance issue was
\* drawn: 95 * 0.6 and 92 * 0.7, and the product of the three below each
C17_Witness ==
    /\ pc = "gen_oee"
    /\ data # << >>
    /\ running.availability_percent = 57000
    /\ running.performance_percent = 64400
    /\ running.oee_percent > 0
    /\ running.oee_percent < running.availability_percent
    /\ data[Len(data)].oee_percent < data[Len(data)].performance_percent


----------------------------------------------------------------------------
(* C18 as stated: in a pass of generate_inventory_data a restock amount is *)
(* added only if the stock after that pass's consumption is below the      *)
(* reorder_point of the SKU.                                               *)
C18_RestockOnlyBelowReorderPoint ==
    (pc = "gen_inv" /\ data # << >>) =>
        (running.restocked => running.consumed < running.reorder_point)

(* C18 amended: a restock amount is added only if the stock after that     *)
(* pass's consumption is at or below the reorder_point; a pass at which it *)
(* is above the reorder_point never restocks, and the stock it carries on  *)
(* is the stock after consumption.                                         *)
C18_RestockOnlyAtOrBelowReorderPoint ==
    (pc = "gen_inv" /\ data # << >>) =>
        /\ running.restocked => running.consumed <= running.reorder_point
        /\ running.consumed > running.reorder_point =>
               /\ ~running.restocked
               /\ running.current_stock = running.consumed
        /\ running.restocked => running.current_stock >= running.consumed + 200000

\* A restock at a pass whose stock after consumption equals the reorder_point
C18_Witness ==
    /\ pc = "gen_inv"
    /\ data # << >>
    /\ running.restocked
    /\ running.consumed = running.reorder_point
    /\ running.current_stock > running.reorder_point


----------------------------------------------------------------------------
\* The timestamps of the rows of entity k, in append order
TimestampsOf(df, key, k) ==
    LET rows == SelectSeq(df, LAMBDA r : r[key] = k)
    IN  [i \in DOMAIN rows |-> rows[i].timestamp]

\* The rows of each entity run over the grid once, in increasing order
OneRowPerGridPoint(df, key) ==
    /\ \A m, n \in DOMAIN df :
         (m < n /\ df[m][key] = df[n][key]) => df[m].timestamp < df[n].timestamp
    /\ \A k \in Keys(df, key) :
         /\ TimestampsOf(df, key, k) = timestamps
         /\ LET last == CHOOSE n \in DOMAIN df :
                            /\ df[n][key] = k
                            /\ \A m \in DOMAIN df : df[m][key] = k => m <= n
            IN  /\ df[last] = NewestRow(df, key, k)
                /\ df[last].timestamp = now

(* C19: in each of the eight generated tables the rows of an entity have   *)
(* strictly increasing timestamps in append order, there is exactly one    *)
(* row per entity and point of the timestamp grid that all entities share, *)
(* and the last appended row of an entity is the row with its greatest     *)
(* timestamp.                                                              *)
C19_TimestampsIncreasePerEntity ==
    /\ OneRowPerGridPoint(predictive_data, "machine_id")
    /\ OneRowPerGridPoint(machine_status_data, "machine_id")
    /\ OneRowPerGridPoint(environment_data, "zone_id")
    /\ OneRowPerGridPoint(oee_data, "line_id")
    /\ OneRowPerGridPoint(cold_chain_data, "shipment_id")
    /\ OneRowPerGridPoint(warehouse_env_data, "warehouse_id")
    /\ OneRowPerGridPoint(inventory_data, "sku_id")
    /\ OneRowPerGridPoint(tampering_data, "package_id")

\* All eight tables are loaded, each with every entity at every grid point
C19_Witness ==
    /\ pc = "done"
    /\ \A i \in DOMAIN tables : Len(tables[i]) = NumEntities * NumTimestamps
    /\ Cardinality(Keys(predictive_data, "machine_id")) = NumEntities
    /\ Cardinality(Keys(inventory_data, "sku_id")) = NumEntities
    /\ inventory_data[Len(inventory_data)].timestamp = now
    /\ inventory_data[1].timestamp < inventory_data[NumTimestamps].timestamp


----------------------------------------------------------------------------
\* The number of rows of the machine of row n up to and including row n
PassOf(df, n) == Cardinality({m \in 1..n : df[m].machine_id = df[n].machine_id})

\* Every row holds the initial runtime of its own machine plus 0.2 per pass
RuntimePerMachine(df) ==
    /\ \A n \in DOMAIN df :
         df[n].runtime_hours =
             machine_profiles[df[n].machine_id].age_months * 30 * 16 * 1000
             + 200 * PassOf(df, n)
    /\ \A m, n \in DOMAIN df :
         (m < n /\ df[m].machine_id = df[n].machine_id) =>
             df[m].runtime_hours < df[n].runtime_hours

(* C20: in generate_predictive_maintenance_data the runtime_hours of a     *)
(* machine start from age_months * 30 * 16, grow by exactly 0.2 at every   *)
(* timestamp, are strictly increasing along the rows of the machine, and   *)
(* do not depend on the rows of another machine.                           *)
C20_RuntimeHoursPerMachine ==
    /\ pc = "gen_pm" => RuntimePerMachine(data)
    /\ RuntimePerMachine(predictive_data)

\* The loop of the second machine has started after the first one's ended
C20_Witness ==
    /\ pc = "gen_pm"
    /\ Len(data) = NumTimestamps + 1
    /\ data[Len(data)].machine_id # data[1].machine_id
    /\ data[Len(data)].runtime_hours =
           machine_profiles[Machines[2]].age_months * 30 * 16 * 1000 + 200
    /\ data[NumTimestamps].runtime_hours =
           data[1].runtime_hours + 200 * (NumTimestamps - 1)
    /\ running = data[Len(data)].runtime_hours


----------------------------------------------------------------------------
(* C21: in every pass of generate_inventory_data restock_eta is non-null,  *)
(* an integer in 6..47, if and only if the stock after consumption is at   *)
(* or below the reorder_point and no restock happened in that pass; after  *)
(* a restock the stock is strictly above the reorder_point, so no row has  *)
(* a restock and a low stock at once.                                      *)
C21_RestockEtaIffLowAndNotRestocked ==
    (pc = "gen_inv" /\ data # << >>) =>
        LET row == data[Len(data)]
        IN  /\ row.restock_eta # None <=>
                   (running.consumed <= running.reorder_point /\ ~running.restocked)
            /\ row.restock_eta # None => row.restock_eta \in 6..47
            /\ running.restocked =>
                   /\ running.current_stock > running.reorder_point
                   /\ row.stock_level > row.reorder_point
                   /\ row.restock_eta = None
            /\ \A r \in Rows(data) : r.restock_eta # None => r.stock_level <= r.reorder_point

\* A restock of the smallest amount at the greatest reorder_point, after a
\* pass of the same SKU that was low and got an ETA instead
C21_Witness ==
    /\ pc = "gen_inv"
    /\ Len(data) >= 2
    /\ running.restocked
    /\ running.reorder_point = 199000
    /\ running.current_stock = running.consumed + 200000
    /\ data[Len(data) - 1].restock_eta \in 6..47
    /\ data[Len(data) - 1].sku_id = data[Len(data)].sku_id


----------------------------------------------------------------------------
(* C22: the latest row of a SKU in the inventory tab takes every column    *)
(* from the final-timestamp row of the SKU, and 'Restock Scheduled' counts *)
(* exactly the SKUs whose final row has a non-null restock_eta.            *)
C22_LatestInvIsFinalRow ==
    (pc = "done" /\ inventory_data # << >>) =>
        /\ \A n \in DOMAIN latest_inv :
             latest_inv[n] = NewestRow(filtered_inv, "sku_id", latest_inv[n].sku_id)
        /\ restock_needed =
               Cardinality({k \in Keys(filtered_inv, "sku_id") :
                               NewestRow(filtered_inv, "sku_id", k).restock_eta # None})


----------------------------------------------------------------------------
\* Every alert of the banner names an entity that has rows in the filtered
\* table
AlertsWithin(alerts, field, df, key) ==
    \A i \in DOMAIN alerts : alerts[i][field] \in Keys(df, key)

(* C23: in every tab, the alerts shown in the banner for the current       *)
(* filter selection belong to entities present in the filtered table of    *)
(* the tab.                                                                *)
C23_BannerAlertsWithinFilteredTable ==
    pc = "done" =>
        /\ AlertsWithin(current_pm_alerts, "machine", filtered_data, "machine_id")
        /\ AlertsWithin(current_env_alerts, "zone", filtered_env, "zone_id")
        /\ AlertsWithin(current_cc_alerts, "shipment", filtered_cc, "shipment_id")
        /\ AlertsWithin(current_inv_alerts, "sku", filtered_inv, "sku_id")
        /\ AlertsWithin(current_tamper_alerts, "package", filtered_tamper, "package_id")


----------------------------------------------------------------------------
(* C24: in the cold chain tab the 'Temp Violations' KPI equals the number  *)
(* of Temperature Deviation alerts of the banner for the current filter    *)
(* selection, and the number of shipments of the filtered latest-row table *)
(* whose |cold_storage_temp - target_temp| exceeds 5.                      *)
C24_TempViolationsMatchesSelection ==
    (pc = "done" /\ cold_chain_data # << >>) =>
        /\ temp_violations = Len(current_cc_alerts)
        /\ temp_violations =
               Cardinality({n \in DOMAIN latest_cc :
                   Abs(latest_cc[n].cold_storage_temp - latest_cc[n].target_temp) > 5000})


----------------------------------------------------------------------------
\* The days of a time range
WindowDays(range) ==
    IF range = "Last 24 Hours" THEN 1 ELSE IF range = "Last 3 Days" THEN 3 ELSE 7

\* filtered holds exactly the rows of df of the selected entity that are no
\* older than the window before the greatest timestamp of df, and the latest
\* row of each of its entities is the latest row that entity has in df
KeepsLatestRows(df, filtered, latest, key, selected, range) ==
    LET tmax == SetMax({df[i].timestamp : i \in DOMAIN df})
    IN  /\ filtered = SelectSeq(df, LAMBDA r :
                          /\ r.timestamp >= tmax - Days(WindowDays(range))
                          /\ (selected = All \/ r[key] = selected))
        /\ Keys(filtered, key) = IF selected = All THEN Keys(df, key) ELSE {selected}
        /\ \A k \in Keys(filtered, key) :
             NewestRow(filtered, key, k) = NewestRow(df, key, k)
        /\ \A n \in DOMAIN latest :
             \A col \in DOMAIN df[1] :
                 latest[n][col] = NewestRow(df, key, latest[n][key])[col]

NumOfType(alerts, type) == Cardinality({i \in DOMAIN alerts : alerts[i].type = type})

(* C25: for each of the three time ranges the filter keeps exactly the     *)
(* rows no older than the window before the greatest timestamp, so the     *)
(* latest row of every entity in the filtered table is its latest row in   *)
(* the unfiltered table; 'Critical Machines' equals the number of 'High    *)
(* Failure Risk' alerts of the selected machines, and 'High Tilt Alerts',  *)
(* 'Light Exposure Alerts' and 'Broken Seals' equal the numbers of the     *)
(* tampering alerts of these types of the selected packages.               *)
C25_TimeFilterKeepsLatestRow ==
    /\ (pc = "done" /\ predictive_data # << >>) =>
           /\ KeepsLatestRows(predictive_data, filtered_data, latest_data,
                              "machine_id", selected_machine, time_range)
           /\ critical_machines = NumOfType(current_pm_alerts, "High Failure Risk")
    /\ (pc = "done" /\ tampering_data # << >>) =>
           /\ KeepsLatestRows(tampering_data, filtered_tamper, latest_tamper,
                              "package_id", selected_package, tamper_period)
           /\ tamper_kpis.high_tilt_count = NumOfType(current_tamper_alerts, "High Tilt")
           /\ tamper_kpis.high_light_count =
                  NumOfType(current_tamper_alerts, "High Light Exposure")
           /\ tamper_kpis.broken_seal_count =
                  NumOfType(current_tamper_alerts, "Broken Seal")

\* The last 24 hours of all machines: older rows are removed and a machine
\* is critical
C25_Witness ==
    /\ pc = "done"
    /\ predictive_data # << >>
    /\ time_range = "Last 24 Hours"
    /\ selected_machine = All
    /\ Len(filtered_data) < Len(predictive_data)
    /\ Len(latest_data) = NumEntities
    /\ critical_machines > 0


----------------------------------------------------------------------------
(* C26: in the package security tab every monitored package of the         *)
(* latest-row table is counted in exactly one of the risk buckets 'Low',   *)
(* 'Medium', 'High': the bucket counts sum to the number of monitored      *)
(* packages.                                                               *)
C26_RiskBucketsCoverAllPackages ==
    (pc = "done" /\ tampering_data # << >>) =>
        /\ \A n \in DOMAIN latest_tamper :
             RiskBucket(latest_tamper[n].risk_score) \in {"Low", "Medium", "High"}
        /\ tamper_kpis.risk_distribution["Low"] + tamper_kpis.risk_distribution["Medium"]
               + tamper_kpis.risk_distribution["High"] = tamper_kpis.total_packages


----------------------------------------------------------------------------
(* C27: in every row of generate_machine_status_data the status is one of  *)
(* 'Running', 'Stopped', 'Maintenance', 'Fault'; rpm is 0 when the status  *)
(* is 'Stopped' or 'Maintenance' and strictly positive when it is          *)
(* 'Running'; a pass drawn as stopped is recorded as 'Stopped', so         *)
(* 'Maintenance' and 'Fault' occur only in a pass drawn as running.        *)
C27_StatusAndRpmConsistent ==
    /\ (pc = "gen_status" /\ data # << >>) =>
           LET row == data[Len(data)]
           IN  /\ ~running.is_running => row.status = "Stopped"
               /\ row.status \in {"Maintenance", "Fault", "Running"} => running.is_running
               /\ \A r \in Rows(data) :
                    /\ r.status \in {"Running", "Stopped", "Maintenance", "Fault"}
                    /\ r.status \in {"Stopped", "Maintenance"} => r.rpm = 0
                    /\ r.status = "Running" => r.rpm > 0
    /\ \A r \in Rows(machine_status_data) :
         /\ r.status \in {"Running", "Stopped", "Maintenance", "Fault"}
         /\ r.status \in {"Stopped", "Maintenance"} => r.rpm = 0
         /\ r.status = "Running" => r.rpm > 0

\* A pass drawn as stopped after a pass that ended in maintenance
C27_Witness ==
    /\ pc = "gen_status"
    /\ Len(data) >= 2
    /\ ~running.is_running
    /\ data[Len(data)].status = "Stopped"
    /\ data[Len(data)].rpm = 0
    /\ data[Len(data) - 1].status = "Maintenance"
    /\ data[Len(data) - 1].rpm = 0


----------------------------------------------------------------------------
\* The machines an update of the real-time loop runs over
RealTimeMachines ==
    IF selected_machine_status = All THEN Machines ELSE <<selected_machine_status>>

(* C28: in real-time mode every row of an update has status 'Running' or   *)
(* 'Stopped', so the 'Faults' metric is 0 in every update; an update holds *)
(* exactly one row per selected machine, in the order of the machine list; *)
(* and the rows are those drawn for the selected machines whatever the     *)
(* 'Filter by Status' selection is, rows of a status that the filter       *)
(* excludes included.                                                      *)
C28_RealTimeRowsRunningOrStopped ==
    (real_time_enabled /\ updates > 0) =>
        /\ \A k \in DOMAIN new_df : new_df[k].status \in {"Running", "Stopped"}
        /\ Cardinality({k \in DOMAIN new_df : new_df[k].status = "Fault"}) = 0
        /\ [k \in DOMAIN new_df |-> new_df[k].machine_id] = RealTimeMachines
        /\ \A k \in DOMAIN new_df :
             LET d == DrawsRealTime[seed[((drawn + StreamLen * Len(new_df)
                                           - Len(new_df) + k - 1) % StreamLen) + 1]]
             IN  new_df[k].status = IF d.roll < 900 THEN "Running" ELSE "Stopped"

\* An update for all machines whose rows the status filter would exclude
C28_Witness ==
    /\ pc = "realtime"
    /\ real_time_enabled
    /\ updates = 3
    /\ selected_machine_status = All
    /\ status_filter = "Fault"
    /\ filtered_status = << >>
    /\ Len(new_df) = NumEntities
    /\ \E k \in DOMAIN new_df : new_df[k].status = "Stopped" /\ new_df[k].rpm = 0


----------------------------------------------------------------------------
\* The rows of df belong to configured shipments and carry the truck, cargo
\* and target temperature of their shipment; distinct shipments have
\* distinct trucks
ShipmentRowsConfigured(df) ==
    /\ \A r \in Rows(df) :
         \E i \in 1..10 :
             /\ r.shipment_id = 1000 + i - 1
             /\ r.shipment_id = shipment_configs[i].shipment_id
             /\ r.truck_id = i
             /\ r.cargo_type = shipment_configs[i].cargo
             /\ r.target_temp = shipment_configs[i].target_temp * 1000
    /\ \A r, q \in Rows(df) :
         /\ r.shipment_id = q.shipment_id =>
                /\ r.truck_id = q.truck_id
                /\ r.cargo_type = q.cargo_type
                /\ r.target_temp = q.target_temp
         /\ r.shipment_id # q.shipment_id => r.truck_id # q.truck_id

(* C29: generate_cold_chain_data produces rows for exactly the configured  *)
(* shipments SHIP_1000 onwards (10 in the program), every row of a         *)
(* shipment carries the same truck_id, cargo_type and target_temp,         *)
(* distinct shipments have distinct trucks among TRUCK_001..TRUCK_010, and *)
(* the route progress of a shipment never decreases from one row to the    *)
(* next and is always less than 1.                                         *)
C29_ShipmentsConfiguredAndProgressBelowOne ==
    /\ [](/\ Len(shipment_configs) = 10
          /\ \A i \in 1..10 : TRUCKS[((i - 1) % Len(TRUCKS)) + 1] = i
          /\ ShipmentRowsConfigured(cold_chain_data)
          /\ cold_chain_data # << >> =>
                 Keys(cold_chain_data, "shipment_id")
                     = {shipment_configs[i].shipment_id : i \in 1..NumEntities}
          /\ (pc = "gen_cc" /\ data # << >>) =>
                 /\ ShipmentRowsConfigured(data)
                 /\ 0 <= running.progress /\ running.progress < 1000)
    /\ [][(/\ pc = "gen_cc" /\ data # << >> /\ Len(data') = Len(data) + 1
           /\ data'[Len(data')].shipment_id = data[Len(data)].shipment_id)
          => running'.progress >= running.progress]_vars

\* The last row of the second shipment: the progress has grown and stays
\* below 1
C29_Witness ==
    /\ pc = "gen_cc"
    /\ Len(data) = 2 * NumTimestamps
    /\ data[Len(data)].shipment_id = 1001
    /\ data[Len(data)].truck_id = 2
    /\ data[1].truck_id = 1
    /\ running.progress > 0
    /\ running.progress < 1000


====
